---- MODULE Spec2Model ----
(***************************************************************************)
(* Model of the daily-vibe-tracker service: the vibes table behind the     *)
(* GORM repository, the read-through cache of the service layer, the       *)
(* service operations (one request per slot, one step per access to the    *)
(* database or the cache) and the status the HTTP handlers answer with.    *)
(*                                                                         *)
(* Strings are sequences of one-character strings.  Instants are whole     *)
(* hours since 2024-01-01 00:00 UTC, which is a Monday.                    *)
(***************************************************************************)
EXTENDS Integers, Sequences, FiniteSets, TLC

VARIABLES store, nextID, cacheOn, cache, req, calls, gone, zone, out,
          clients, limiters, clock, visit, woke

\* the state of the service and the state of the rate limiter
svc == <<store, nextID, cacheOn, cache, req, calls, gone, zone, out>>

mw == <<clients, limiters, clock, visit, woke>>

vars == <<svc, mw>>

(***************************************************************************)
(* Bounds                                                                  *)
(***************************************************************************)
MaxID == 2

MaxCalls == 3

MaxStreakLen == 4

MaxDay == 3

MaxRows == 3

(***************************************************************************)
(* Strings: strings.TrimSpace and strings.ToLower                          *)
(***************************************************************************)
IsSpace(c) == c = " "

RECURSIVE TrimLeft(_)
TrimLeft(s) ==
  IF s = <<>> THEN <<>>
  ELSE IF IsSpace(Head(s)) THEN TrimLeft(Tail(s)) ELSE s

RECURSIVE TrimRight(_)
TrimRight(s) ==
  IF s = <<>> THEN <<>>
  ELSE IF IsSpace(s[Len(s)]) THEN TrimRight(SubSeq(s, 1, Len(s) - 1)) ELSE s

TrimSpace(s) == TrimRight(TrimLeft(s))

LowerChar(c) ==
  CASE c = "H" -> "h"
    [] c = "S" -> "s"
    [] OTHER -> c

ToLower(s) == [i \in 1..Len(s) |-> LowerChar(s[i])]

NormalizeMood(m) == ToLower(TrimSpace(m))

(***************************************************************************)
(* Input domains                                                           *)
(***************************************************************************)
RawMoods == {<<>>, <<" ">>, <<"H">>, <<"s", " ">>}

EnergyInputs == {0, 5, 11}

Hour == 24

Now == 2 * Hour + 12

DateEarly == 1 * Hour + 8

DateLate == 8 * Hour + 8

DateInputs == {DateEarly, DateLate}

CreatedAtInputs == {0, 5}

PeriodInputs == {"Week", "quarter"}

Slots == {1, 2}

(***************************************************************************)
(* Time.  A record's Date is an instant; its calendar day is taken in the  *)
(* time's Location.  "UTC" has no offset; "DST" is a zone whose clocks go  *)
(* forward one hour at DstAt, so the local day that holds DstAt has 23     *)
(* hours; "DSTEND" is a zone whose clocks go back one hour at DstEndAt, on  *)
(* a Sunday, so that Sunday has 25 hours.                                  *)
(***************************************************************************)
Zones == {"UTC", "DST"}

Locations == Zones \cup {"DSTEND"}

DstAt == 1 * Hour + 2

DstEndAt == 6 * Hour + 2

LocalHours(t, z) ==
  IF z = "DST" /\ t >= DstAt THEN t + 1
  ELSE IF z = "DSTEND" /\ t >= DstEndAt THEN t - 1
  ELSE t

\* time.Date(y, m, d, h, 0, 0, 0, loc): the instant of a local time
InstantOf(local, z) ==
  CHOOSE t \in (local - 1)..(local + 1) : LocalHours(t, z) = local

CalendarDay(t, z) == LocalHours(t, z) \div Hour

(***************************************************************************)
(* The vibes table: a function from ids to rows.  A row with deleted set   *)
(* is soft-deleted: GORM adds "deleted_at IS NULL" to every query.         *)
(***************************************************************************)
Rows(tbl) == {tbl[i] : i \in DOMAIN tbl}

Live(tbl) == {r \in Rows(tbl) : ~r.deleted}

MinDate(S) == CHOOSE r \in S : \A q \in S : r.date <= q.date

RECURSIVE SortAsc(_)
SortAsc(S) ==
  IF S = {} THEN <<>>
  ELSE LET r == MinDate(S) IN <<r>> \o SortAsc(S \ {r})

Reverse(s) == [i \in 1..Len(s) |-> s[Len(s) + 1 - i]]

SortDesc(S) == Reverse(SortAsc(S))

MoodRowsDesc(tbl, mood) == SortDesc({r \in Live(tbl) : r.mood = mood})

MoodRowsAsc(tbl, mood) == SortAsc({r \in Live(tbl) : r.mood = mood})

(***************************************************************************)
(* VibeRepository.GetMoodStreak                                            *)
(***************************************************************************)
RECURSIVE CurrentLoop(_, _, _, _)
CurrentLoop(vibes, i, currentStreak, lastDate) ==
  IF i > Len(vibes) THEN currentStreak
  ELSE IF i = 1 THEN CurrentLoop(vibes, 2, currentStreak + 1, vibes[1].date)
  ELSE IF lastDate - vibes[i].date = 24
       THEN CurrentLoop(vibes, i + 1, currentStreak + 1, vibes[i].date)
       ELSE currentStreak

CurrentStreak(vibes) == CurrentLoop(vibes, 1, 0, 0)

RECURSIVE LongestLoop(_, _, _, _, _, _)
LongestLoop(vibes, i, currentStreak, longestStreak, prevDate, z) ==
  IF i > Len(vibes)
  THEN IF currentStreak > longestStreak THEN currentStreak ELSE longestStreak
  ELSE IF i = 1 THEN LongestLoop(vibes, 2, 1, longestStreak, vibes[1].date, z)
  ELSE IF CalendarDay(vibes[i].date, z) = CalendarDay(prevDate, z) + 1
       THEN LongestLoop(vibes, i + 1, currentStreak + 1, longestStreak,
                        vibes[i].date, z)
       ELSE LongestLoop(vibes, i + 1, 1,
                        IF currentStreak > longestStreak
                        THEN currentStreak ELSE longestStreak,
                        vibes[i].date, z)

RECURSIVE LongestLoopNoFinal(_, _, _, _, _, _)
LongestLoopNoFinal(vibes, i, currentStreak, longestStreak, prevDate, z) ==
  IF i > Len(vibes) THEN longestStreak
  ELSE IF i = 1
       THEN LongestLoopNoFinal(vibes, 2, 1, longestStreak, vibes[1].date, z)
  ELSE IF CalendarDay(vibes[i].date, z) = CalendarDay(prevDate, z) + 1
       THEN LongestLoopNoFinal(vibes, i + 1, currentStreak + 1, longestStreak,
                               vibes[i].date, z)
       ELSE LongestLoopNoFinal(vibes, i + 1, 1,
                               IF currentStreak > longestStreak
                               THEN currentStreak ELSE longestStreak,
                               vibes[i].date, z)

LongestStreakNoFinalCheck(vibes, z) == LongestLoopNoFinal(vibes, 1, 0, 0, 0, z)

LongestStreak(vibes, z) == LongestLoop(vibes, 1, 0, 0, 0, z)

RepoGetMoodStreak(tbl, mood, checkCurrent, z) ==
  LET vibes == MoodRowsDesc(tbl, mood) IN
  IF Len(vibes) = 0 THEN 0
  ELSE IF checkCurrent THEN CurrentStreak(vibes)
  ELSE LongestStreak(MoodRowsAsc(tbl, mood), z)

(***************************************************************************)
(* VibeService.GetMoodStreak on one snapshot of the table                  *)
(***************************************************************************)
ServiceGetMoodStreak(tbl, mood, z) ==
  IF TrimSpace(mood) = <<>>
  THEN [err |-> "invalid_mood"]
  ELSE LET normalizedMood == NormalizeMood(mood) IN
       [err |-> "nil",
        mood |-> normalizedMood,
        current_streak |-> RepoGetMoodStreak(tbl, normalizedMood, TRUE, z),
        longest_streak |-> RepoGetMoodStreak(tbl, normalizedMood, FALSE, z)]

(***************************************************************************)
(* Requests and the empty cache                                            *)
(***************************************************************************)
Idle == [op |-> "idle", pc |-> "idle"]

NoOut == [op |-> "none"]

EmptyMap == [k \in {} |-> 0]

(***************************************************************************)
(* model.Vibe rows, the table's constraints and the repository's writes    *)
(***************************************************************************)
ZeroDate == 0 - 17730000

Row(id, v) ==
  [id |-> id, date |-> v.date, mood |-> v.mood, energy |-> v.energy,
   createdAt |-> v.createdAt, deleted |-> FALSE]

\* uniqueIndex on date: over every row of the table, soft-deleted ones too.
UniqueDate(tbl, id, date) ==
  \A r \in Rows(tbl) : r.id # id => r.date # date

\* check:energy_level >= 1 AND energy_level <= 10
CheckEnergy(energy) == energy >= 1 /\ energy <= 10

FirstByID(tbl, id) == {r \in Live(tbl) : r.id = id}

\* VibeRepository.CreateVibe: GORM fills the key and a zero CreatedAt.
RepoCreateVibe(tbl, id, vibe) ==
  IF UniqueDate(tbl, id, vibe.date) /\ CheckEnergy(vibe.energy)
  THEN [err |-> "nil",
        tbl |-> (id :> Row(id, [vibe EXCEPT !.createdAt =
                                  IF @ = 0 THEN Now ELSE @])) @@ tbl]
  ELSE [err |-> "db", tbl |-> tbl]

\* VibeRepository.DeleteVibe: soft delete, RowsAffected = 0 is not-found.
RepoDeleteVibe(tbl, id) ==
  IF FirstByID(tbl, id) = {}
  THEN [err |-> "not_found", tbl |-> tbl]
  ELSE [err |-> "nil", tbl |-> [tbl EXCEPT ![id].deleted = TRUE]]

(***************************************************************************)
(* VibeService.ValidateVibe and the write normalisation                    *)
(***************************************************************************)
ValidateVibe(vibe) ==
  IF vibe.energy < 1 \/ vibe.energy > 10 THEN "energy level must be between 1 and 10"
  ELSE IF TrimSpace(vibe.mood) = <<>> THEN "mood cannot be empty"
  ELSE "nil"

\* The normalisation without strings.TrimSpace.
NormalizedNoTrim(vibe) == [vibe EXCEPT !.mood = ToLower(@)]

\* vibe.Mood = strings.ToLower(strings.TrimSpace(vibe.Mood))
Normalized(vibe) == [vibe EXCEPT !.mood = NormalizeMood(@)]

(***************************************************************************)
(* The cache (pkg/cache, a JSON key/value store with TTL): cache.vibe[id]  *)
(* is the entry "vibe:<id>", cache.stats[p] the entry "stats:<p>".         *)
(***************************************************************************)
EmptyCache == [vibe |-> EmptyMap, stats |-> EmptyMap]

Without(f, D) == [k \in (DOMAIN f) \ D |-> f[k]]

\* json:"-" on DeletedAt: the entry carries no deletion mark.
CacheEncode(row) == [row EXCEPT !.deleted = FALSE]

LowerToken(period) ==
  CASE period = "Week" -> "week"
    [] OTHER -> period

getVibeStatsCacheKey(period) == LowerToken(period)

StatsKeys == {"week", "month", "year"}

\* invalidateVibeCache / invalidateStatsCache: each Delete may fail, which
\* is only logged; dv and ds are the entries whose Delete succeeded.
Invalidated(c, dv, ds) ==
  [vibe |-> Without(c.vibe, dv), stats |-> Without(c.stats, ds)]

(***************************************************************************)
(* Requests.  req[s] is the call running in slot s, between two of its     *)
(* accesses to the table or the cache; out is the last response.           *)
(***************************************************************************)
Quiet(s) == \A t \in Slots \ {s} : req[t] = Idle

\* A call that starts while a DeleteVibe is in flight runs concurrently
\* with it.
Disturbed(r) == IF r.op = "delete" THEN [r EXCEPT !.alone = FALSE] ELSE r

\* A new call takes the first free slot.
CanCall(s) ==
  /\ req[s] = Idle
  /\ \A t \in Slots : t < s => req[t] # Idle
  /\ calls < MaxCalls

\* The call starts and goes on as r.
Begin(s, r) ==
  /\ CanCall(s)
  /\ calls' = calls + 1
  /\ req' = [t \in Slots |-> IF t = s THEN r ELSE Disturbed(req[t])]
  /\ out' = out

\* The call starts and is answered at once with o.
Reply(s, o) ==
  /\ CanCall(s)
  /\ calls' = calls + 1
  /\ req' = [t \in Slots |-> Disturbed(req[t])]
  /\ out' = o

\* The call that starts in this step is answered in this step.
Replies == calls' = calls + 1 /\ \A t \in Slots : req'[t] = Disturbed(req[t])

\* The running call goes on as r.
Goto(s, r) ==
  /\ req' = [req EXCEPT ![s] = r]
  /\ out' = out
  /\ calls' = calls

\* The running call is answered with o.
Answer(s, o) ==
  /\ req' = [req EXCEPT ![s] = Idle]
  /\ out' = o
  /\ calls' = calls

\* The response of a write: the error of the service and the handler's
\* status; invalid tells whether ValidateVibe refuses the body.
WriteOut(op, via, id, err, status, invalid) ==
  [op |-> op, via |-> via, id |-> id, err |-> err, status |-> status,
   invalid |-> invalid]

(***************************************************************************)
(* The cache invalidation that ends CreateVibe, UpdateVibe and DeleteVibe  *)
(***************************************************************************)
\* The invalidation that hands a failed Delete on as the error of the write.
StepInvalidateStrict(s) ==
  LET r == req[s]
      tv == IF r.op = "create" THEN {} ELSE {r.id} \cap DOMAIN cache.vibe
      ts == StatsKeys \cap DOMAIN cache.stats
  IN
  /\ r.op \in {"create", "update", "delete"}
  /\ r.pc = "inval"
  /\ \E dv \in SUBSET tv, ds \in SUBSET ts :
       /\ cache' = Invalidated(cache, dv, ds)
       /\ Answer(s, WriteOut(r.op, r.via, r.id,
                             IF dv = tv /\ ds = ts THEN "nil" ELSE "cache",
                             r.status, FALSE))
  /\ gone' = IF r.op = "delete" /\ r.alone THEN gone \cup {r.id} ELSE gone
  /\ UNCHANGED <<store, nextID, cacheOn, zone, mw>>

StepInvalidate(s) ==
  LET r == req[s]
      tv == IF r.op = "create" THEN {} ELSE {r.id} \cap DOMAIN cache.vibe
      ts == StatsKeys \cap DOMAIN cache.stats
  IN
  /\ r.op \in {"create", "update", "delete"}
  /\ r.pc = "inval"
  /\ \E dv \in SUBSET tv, ds \in SUBSET ts : cache' = Invalidated(cache, dv, ds)
  /\ Answer(s, WriteOut(r.op, r.via, r.id, "nil", r.status, FALSE))
  /\ gone' = IF r.op = "delete" /\ r.alone THEN gone \cup {r.id} ELSE gone
  /\ UNCHANGED <<store, nextID, cacheOn, zone, mw>>

\* The write is committed: invalidate when there is a cache, else answer.
Committed(s, r, start) ==
  IF cacheOn
  THEN IF start THEN Begin(s, [r EXCEPT !.pc = "inval"])
       ELSE Goto(s, [r EXCEPT !.pc = "inval"])
  ELSE IF start THEN Reply(s, WriteOut(r.op, r.via, r.id, "nil", r.status, FALSE))
       ELSE Answer(s, WriteOut(r.op, r.via, r.id, "nil", r.status, FALSE))

(***************************************************************************)
(* CreateVibe: CreateVibeFiber / CreateVibeGin over VibeService.CreateVibe *)
(***************************************************************************)
HandlerCreateRejects(vibe) ==
  vibe.date = ZeroDate \/ vibe.mood = <<>> \/ vibe.energy < 1 \/ vibe.energy > 10

CreateStatus(via, err) ==
  IF via = "svc" THEN 0
  ELSE IF err = "bad_request" THEN 400
  ELSE IF err = "nil" THEN 201 ELSE 500

CallCreate(s, via, vibe) ==
  LET ins == RepoCreateVibe(store, nextID, Normalized(vibe))
      reply(err) == Reply(s, WriteOut("create", via, 0, err, CreateStatus(via, err),
                                      ValidateVibe(vibe) # "nil"))
  IN
  IF via # "svc" /\ HandlerCreateRejects(vibe)
  THEN /\ reply("bad_request")
       /\ UNCHANGED <<store, nextID, cacheOn, cache, gone, zone, mw>>
  ELSE IF ValidateVibe(vibe) # "nil"
  THEN /\ reply("validation")
       /\ UNCHANGED <<store, nextID, cacheOn, cache, gone, zone, mw>>
  ELSE /\ nextID <= MaxID
       /\ nextID' = nextID + 1
       /\ store' = ins.tbl
       /\ IF ins.err # "nil"
          THEN reply(ins.err)
          ELSE Committed(s, [op |-> "create", pc |-> "call", via |-> via,
                             id |-> nextID,
                             status |-> CreateStatus(via, "nil")], TRUE)
       /\ UNCHANGED <<cacheOn, cache, gone, zone, mw>>

(***************************************************************************)
(* DeleteVibe: DeleteVibeFiber / DeleteVibeGin over VibeService.DeleteVibe *)
(***************************************************************************)
FoundStatus(err) ==
  IF err = "nil" THEN 200 ELSE IF err = "not_found" THEN 404 ELSE 500

CallDelete(s, id) ==
  LET del == RepoDeleteVibe(store, id) IN
  /\ store' = del.tbl
  /\ IF del.err # "nil"
     THEN /\ Reply(s, WriteOut("delete", "fiber", id, del.err, FoundStatus(del.err),
                               FALSE))
          /\ gone' = gone
     ELSE /\ Committed(s, [op |-> "delete", pc |-> "call", via |-> "fiber",
                           id |-> id, status |-> FoundStatus("nil"),
                           alone |-> Quiet(s)], TRUE)
          /\ gone' = IF ~cacheOn /\ Quiet(s) THEN gone \cup {id} ELSE gone
  /\ UNCHANGED <<nextID, cacheOn, cache, zone, mw>>

(***************************************************************************)
(* GetVibeByID: GetVibeByIDFiber / GetVibeByIDGin over                     *)
(* VibeService.GetVibeByID                                                 *)
(***************************************************************************)
NoRow == [id |-> 0]

GetOut(id, err, val, after) ==
  [op |-> "get", id |-> id, err |-> err, status |-> FoundStatus(err),
   val |-> val, after |-> after]

\* The cache is asked first; a failed Get counts as a miss.
CallGet(s, id) ==
  /\ \/ /\ cacheOn
        /\ id \in DOMAIN cache.vibe
        /\ Reply(s, GetOut(id, "nil", cache.vibe[id], gone))
     \/ Begin(s, [op |-> "get", pc |-> "repo", id |-> id, after |-> gone,
                  val |-> NoRow])
  /\ UNCHANGED <<store, nextID, cacheOn, cache, gone, zone, mw>>

StepGetRepo(s) ==
  LET r == req[s]
      found == FirstByID(store, r.id)
  IN
  /\ r.op = "get"
  /\ r.pc = "repo"
  /\ IF found = {}
     THEN Answer(s, GetOut(r.id, "not_found", NoRow, r.after))
     ELSE LET vibe == CHOOSE v \in found : TRUE IN
          IF cacheOn THEN Goto(s, [r EXCEPT !.pc = "set", !.val = vibe])
          ELSE Answer(s, GetOut(r.id, "nil", vibe, r.after))
  /\ UNCHANGED <<store, nextID, cacheOn, cache, gone, zone, mw>>

StepGetSet(s) ==
  LET r == req[s] IN
  /\ r.op = "get"
  /\ r.pc = "set"
  /\ \/ cache' = [cache EXCEPT !.vibe = (r.id :> CacheEncode(r.val)) @@ @]
     \/ cache' = cache
  /\ Answer(s, GetOut(r.id, "nil", r.val, r.after))
  /\ UNCHANGED <<store, nextID, cacheOn, gone, zone, mw>>

(***************************************************************************)
(* UpdateVibe: UpdateVibeFiber / UpdateVibeGin over VibeService.UpdateVibe *)
(* and VibeRepository.UpdateVibe                                           *)
(***************************************************************************)
\* binding:"omitempty,min=1,max=10", which only Gin's ShouldBindJSON applies
GinBindRejects(vibe) ==
  vibe.energy # 0 /\ (vibe.energy < 1 \/ vibe.energy > 10)

\* The repository without "updatedVibe.CreatedAt = existingVibe.CreatedAt".
PreserveIDOnly(id, updatedVibe, existingVibe) == [updatedVibe EXCEPT !.id = id]

\* updatedVibe.ID = id; updatedVibe.CreatedAt = existingVibe.CreatedAt
PreserveID(id, updatedVibe, existingVibe) ==
  [updatedVibe EXCEPT !.id = id, !.createdAt = existingVibe.createdAt]

\* gorm's DB.Save: a zero key inserts; otherwise every column of the live
\* row is updated and, when no live row matched, the row is upserted on its
\* key (created_at is then kept and deleted_at is cleared).
RepoSave(tbl, nid, vibe) ==
  LET target == IF vibe.id = 0 THEN nid ELSE vibe.id IN
  IF ~(UniqueDate(tbl, target, vibe.date) /\ CheckEnergy(vibe.energy))
  THEN [err |-> "db", tbl |-> tbl]
  ELSE IF target \in DOMAIN tbl
  THEN [err |-> "nil",
        tbl |-> [tbl EXCEPT ![target] =
                   Row(target, [vibe EXCEPT !.createdAt =
                                  IF tbl[target].deleted
                                  THEN tbl[target].createdAt ELSE @])]]
  ELSE [err |-> "nil",
        tbl |-> (target :> Row(target, [vibe EXCEPT !.createdAt =
                                          IF @ = 0 THEN Now ELSE @])) @@ tbl]

UpdateStatus(via, err) ==
  IF via = "svc" THEN 0
  ELSE IF err = "bad_request" THEN 400 ELSE FoundStatus(err)

\* The handlers check the body, the service validates and normalises it,
\* the repository reads the existing row.
CallUpdate(s, via, id, vibe) ==
  LET reply(err) == Reply(s, WriteOut("update", via, id, err, UpdateStatus(via, err),
                                      ValidateVibe(vibe) # "nil"))
      found == FirstByID(store, id)
  IN
  /\ IF via = "gin" /\ GinBindRejects(vibe) THEN reply("bad_request")
     ELSE IF ValidateVibe(vibe) # "nil" THEN reply("validation")
     ELSE IF found = {} THEN reply("not_found")
     ELSE LET existingVibe == CHOOSE v \in found : TRUE IN
          Begin(s, [op |-> "update", pc |-> "save", via |-> via, id |-> id,
                    status |-> UpdateStatus(via, "nil"),
                    vibe |-> PreserveID(id, Normalized(vibe), existingVibe)])
  /\ UNCHANGED <<store, nextID, cacheOn, cache, gone, zone, mw>>

\* r.DB.Save(updatedVibe)
StepUpdateSave(s) ==
  LET r == req[s]
      sav == RepoSave(store, nextID, r.vibe)
  IN
  /\ r.op = "update"
  /\ r.pc = "save"
  /\ store' = sav.tbl
  /\ nextID' = IF r.vibe.id = 0 THEN nextID + 1 ELSE nextID
  /\ IF sav.err # "nil"
     THEN Answer(s, WriteOut("update", r.via, r.id, sav.err,
                             UpdateStatus(r.via, sav.err), FALSE))
     ELSE Committed(s, r, FALSE)
  /\ UNCHANGED <<cacheOn, cache, gone, zone, mw>>

(***************************************************************************)
(* BulkImportVibes over VibeRepository.BulkInsertVibes                     *)
(***************************************************************************)
RECURSIVE FirstInvalid(_, _)
FirstInvalid(vibes, i) ==
  IF i > Len(vibes) THEN 0
  ELSE IF ValidateVibe(vibes[i]) # "nil" THEN i
  ELSE FirstInvalid(vibes, i + 1)

\* One INSERT of all rows: the first row that breaks a constraint aborts
\* the statement; the key sequence has advanced up to that row.
RECURSIVE BulkInsert(_, _, _, _)
BulkInsert(tbl, nid, vibes, i) ==
  IF i > Len(vibes) THEN [err |-> "nil", tbl |-> tbl, used |-> Len(vibes)]
  ELSE LET ins == RepoCreateVibe(tbl, nid, vibes[i]) IN
       IF ins.err # "nil" THEN [err |-> "db", tbl |-> tbl, used |-> i]
       ELSE BulkInsert(ins.tbl, nid + 1, vibes, i + 1)

BulkOut(err, status, count) ==
  [op |-> "bulk", err |-> err, status |-> status, count |-> count]

\* The import that inserts row after row and keeps the rows that went in
\* before the one that failed.
CallBulkRowByRow(s, vibes) ==
  LET bad == FirstInvalid(vibes, 1)
      normalized == [i \in 1..Len(vibes) |-> Normalized(vibes[i])]
      ins == BulkInsert(store, nextID, normalized, 1)
  IN
  IF Len(vibes) = 0
  THEN /\ Reply(s, BulkOut("no_vibes", 400, 0) @@ [arg |-> vibes])
       /\ UNCHANGED <<store, nextID, cacheOn, cache, gone, zone, mw>>
  ELSE IF bad # 0
  THEN /\ Reply(s, BulkOut("validation", 500, 0) @@ [arg |-> vibes])
       /\ UNCHANGED <<store, nextID, cacheOn, cache, gone, zone, mw>>
  ELSE /\ nextID + Len(vibes) - 1 <= MaxID
       /\ nextID' = nextID + ins.used
       /\ store' = ins.tbl
       /\ IF ins.err # "nil"
          THEN Reply(s, BulkOut(ins.err, 500, 0) @@ [arg |-> vibes])
          ELSE Reply(s, BulkOut("nil", 201, Len(vibes)) @@ [arg |-> vibes])
       /\ UNCHANGED <<cacheOn, cache, gone, zone, mw>>

\* arg is the list the call was handed.
CallBulk(s, vibes) ==
  LET bad == FirstInvalid(vibes, 1)
      normalized == [i \in 1..Len(vibes) |-> Normalized(vibes[i])]
      ins == BulkInsert(store, nextID, normalized, 1)
  IN
  IF Len(vibes) = 0
  THEN /\ Reply(s, BulkOut("no_vibes", 400, 0) @@ [arg |-> vibes])
       /\ UNCHANGED <<store, nextID, cacheOn, cache, gone, zone, mw>>
  ELSE IF bad # 0
  THEN /\ Reply(s, BulkOut("validation", 500, 0) @@ [arg |-> vibes])
       /\ UNCHANGED <<store, nextID, cacheOn, cache, gone, zone, mw>>
  ELSE /\ nextID + Len(vibes) - 1 <= MaxID
       /\ nextID' = nextID + ins.used
       /\ IF ins.err # "nil"
          THEN /\ store' = store
               /\ Reply(s, BulkOut(ins.err, 500, 0) @@ [arg |-> vibes])
          ELSE /\ store' = ins.tbl
               /\ Reply(s, BulkOut("nil", 201, Len(vibes)) @@ [arg |-> vibes])
       /\ UNCHANGED <<cacheOn, cache, gone, zone, mw>>

(***************************************************************************)
(* An entry's TTL runs out                                                 *)
(***************************************************************************)
Expire ==
  /\ \/ \E id \in DOMAIN cache.vibe :
          cache' = [cache EXCEPT !.vibe = Without(@, {id})]
     \/ \E p \in DOMAIN cache.stats :
          cache' = [cache EXCEPT !.stats = Without(@, {p})]
  /\ UNCHANGED <<store, nextID, cacheOn, req, calls, gone, zone, out, mw>>

(***************************************************************************)
(* The date range of a period: the switch of VibeService.GetVibeStatistics *)
(* on the calendar of 2024                                                 *)
(***************************************************************************)
MonthLen == <<31, 29, 31, 30, 31, 30, 31, 31, 30, 31, 30, 31>>

RECURSIVE MonthStart(_)
MonthStart(m) == IF m = 1 THEN 0 ELSE MonthStart(m - 1) + MonthLen[m - 1]

MonthOf(day) ==
  CHOOSE m \in 1..12 : MonthStart(m) <= day /\ day < MonthStart(m) + MonthLen[m]

\* time.Weekday: Sunday = 0; day 0 is a Monday.
Weekday(day) == (day + 1) % 7

\* 23:59:59 on a day, as a local time
EndOfDay(day) == day * Hour + 23

\* t.Add(23*time.Hour + 59*time.Minute + 59*time.Second): elapsed time
AddEndOfDay(t) == t + 23

\* The switch on the period, with now in the Location z.
PeriodRangeIn(period, now, z) ==
  LET today == CalendarDay(now, z)
      token == LowerToken(period)
      monday == IF Weekday(today) = 0 THEN today - 6
                ELSE today - Weekday(today) + 1
      first == MonthStart(MonthOf(today))
      last == first + MonthLen[MonthOf(today)] - 1
  IN
  CASE token = "week" ->
         [startDate |-> InstantOf(monday * Hour, z),
          endDate |-> AddEndOfDay(InstantOf((monday + 6) * Hour, z))]
    [] token = "month" ->
         [startDate |-> InstantOf(first * Hour, z),
          endDate |-> AddEndOfDay(InstantOf(last * Hour, z))]
    [] token = "year" ->
         [startDate |-> InstantOf(0, z),
          endDate |-> InstantOf(EndOfDay(MonthStart(12) + 30), z)]
    [] OTHER ->
         [startDate |-> InstantOf(first * Hour, z),
          endDate |-> AddEndOfDay(InstantOf(last * Hour, z))]

PeriodRange(period, now) == PeriodRangeIn(period, now, "UTC")

\* The query without the filter on deleted_at.
InRangeUnscoped(tbl, range) ==
  {r \in Rows(tbl) : range.startDate <= r.date /\ r.date <= range.endDate}

\* WHERE date BETWEEN ? AND ?
InRange(tbl, range) ==
  {r \in Live(tbl) : range.startDate <= r.date /\ r.date <= range.endDate}

(***************************************************************************)
(* VibeRepository.GetVibeStatistics and the analytics of the service       *)
(***************************************************************************)
IDs(S) == {r.id : r \in S}

RECURSIVE SumEnergy(_)
SumEnergy(S) ==
  IF S = {} THEN 0
  ELSE LET r == CHOOSE x \in S : TRUE IN r.energy + SumEnergy(S \ {r})

\* count(*) over all the rows of the range, for every mood.
MoodDistributionUngrouped(rows) ==
  [m \in {r.mood : r \in rows} |-> Cardinality(rows)]

\* SELECT mood, count(*) ... GROUP BY mood
MoodDistribution(rows) ==
  [m \in {r.mood : r \in rows} |-> Cardinality({r \in rows : r.mood = m})]

\* COALESCE(AVG(energy_level), 0), kept as the sum and the number of rows
AverageEnergy(rows) == [sum |-> SumEnergy(rows), n |-> Cardinality(rows)]

Text(t) == [kind |-> "text", text |-> t]

Map(m) == [kind |-> "map", map |-> m]

\* fmt.Sprintf("%s -> %s", a, b)
Pattern(a, b) == a \o <<" ", "-", ">", " ">> \o b

\* The loop that stops one transition early.
calculateMoodPatternsShort(vibes) ==
  IF Len(vibes) < 2
  THEN Text("Not enough data for mood patterns (need at least 2 entries).")
  ELSE LET pat(i) == Pattern(vibes[i].mood, vibes[i + 1].mood)
           idx == 1..(Len(vibes) - 2)
       IN Map([p \in {pat(i) : i \in idx} |->
                 Cardinality({i \in idx : pat(i) = p})])

calculateMoodPatterns(vibes) ==
  IF Len(vibes) < 2
  THEN Text("Not enough data for mood patterns (need at least 2 entries).")
  ELSE LET pat(i) == Pattern(vibes[i].mood, vibes[i + 1].mood)
           idx == 1..(Len(vibes) - 1)
       IN Map([p \in {pat(i) : i \in idx} |->
                 Cardinality({i \in idx : pat(i) = p})])

\* The mean over all the records instead of the records of the mood.
MoodEnergyOverAll(vibes) ==
  IF Len(vibes) = 0
  THEN Text("Not enough data for mood-energy correlation.")
  ELSE LET rows == {vibes[i] : i \in 1..Len(vibes)} IN
       Map([m \in {r.mood : r \in rows} |->
              [sum |-> SumEnergy({r \in rows : r.mood = m}),
               n |-> Cardinality(rows)]])

calculateMoodEnergyCorrelation(vibes) ==
  IF Len(vibes) = 0
  THEN Text("Not enough data for mood-energy correlation.")
  ELSE LET rows == {vibes[i] : i \in 1..Len(vibes)} IN
       Map([m \in {r.mood : r \in rows} |->
              AverageEnergy({r \in rows : r.mood = m})])

\* vibe.Activities; the rows written through the requests of this model
\* log none.
Activities(vibe) ==
  IF "activities" \in DOMAIN vibe THEN vibe.activities ELSE <<>>

\* The occurrences the loop over the activities counts: record i, entry j,
\* entries equal to "" skipped.
Occurrences(vibes) ==
  UNION {{<<i, j>> : j \in {k \in 1..Len(Activities(vibes[i])) :
                               Activities(vibes[i])[k] # <<>>}} :
         i \in 1..Len(vibes)}

\* activity = strings.ToLower(strings.TrimSpace(activity))
ActivityAt(vibes, p) == ToLower(TrimSpace(Activities(vibes[p[1]])[p[2]]))

activityFrequency(vibes) ==
  LET occ == Occurrences(vibes) IN
  [a \in {ActivityAt(vibes, p) : p \in occ} |->
     Cardinality({p \in occ : ActivityAt(vibes, p) = a})]

activityMoods(vibes) ==
  LET occ == Occurrences(vibes) IN
  [a \in {ActivityAt(vibes, p) : p \in occ} |->
     LET at == {p \in occ : ActivityAt(vibes, p) = a} IN
     [m \in {vibes[p[1]].mood : p \in at} |->
        Cardinality({p \in at : vibes[p[1]].mood = m})]]

RECURSIVE Perms(_)
Perms(S) ==
  IF S = {} THEN {<<>>}
  ELSE UNION {{<<x>> \o q : q \in Perms(S \ {x})} : x \in S}

\* for name, count := range activityFrequency: Go ranges over a map in an
\* order of its own, any order of the names.
MapOrders(vibes) == Perms(DOMAIN activityFrequency(vibes))

\* The sort with the comparison turned round: ascending by frequency.
RECURSIVE SortActivitiesAscending(_, _, _)
SortActivitiesAscending(sorted, i, j) ==
  IF i > Len(sorted) THEN sorted
  ELSE IF j > Len(sorted) THEN SortActivitiesAscending(sorted, i + 1, i + 2)
  ELSE IF sorted[j].Count < sorted[i].Count
       THEN SortActivitiesAscending([sorted EXCEPT ![i] = sorted[j], ![j] = sorted[i]],
                                    i, j + 1)
       ELSE SortActivitiesAscending(sorted, i, j + 1)

\* The two nested loops that sort the activities by frequency, descending.
RECURSIVE SortActivities(_, _, _)
SortActivities(sorted, i, j) ==
  IF i > Len(sorted) THEN sorted
  ELSE IF j > Len(sorted) THEN SortActivities(sorted, i + 1, i + 2)
  ELSE IF sorted[j].Count > sorted[i].Count
       THEN SortActivities([sorted EXCEPT ![i] = sorted[j], ![j] = sorted[i]],
                           i, j + 1)
       ELSE SortActivities(sorted, i, j + 1)

calculateActivityMoodCorrelation(vibes, topNActivities, order) ==
  IF Len(vibes) = 0
  THEN Text("Not enough data for activity-mood correlation.")
  ELSE IF DOMAIN activityFrequency(vibes) = {}
  THEN Text("No activities logged in the period.")
  ELSE LET freq == activityFrequency(vibes)
           sortedActivities ==
             SortActivities([i \in 1..Len(order) |->
                               [Name |-> order[i], Count |-> freq[order[i]]]], 1, 2)
           limit == IF Len(sortedActivities) < topNActivities
                    THEN Len(sortedActivities) ELSE topNActivities
       IN Map([a \in {sortedActivities[i].Name : i \in 1..limit} |->
                 [total_occurrences |-> freq[a],
                  mood_distribution |-> activityMoods(vibes)[a]]])

\* order is the order in which the activity map is ranged over.
Analytics(vibes, order) ==
  IF Len(vibes) > 0
  THEN [mood_patterns |-> calculateMoodPatterns(vibes),
        mood_energy_correlation |-> calculateMoodEnergyCorrelation(vibes),
        activity_mood_correlation |->
          calculateActivityMoodCorrelation(vibes, 5, order)]
  ELSE [mood_patterns |-> Text("Not enough data for mood patterns."),
        mood_energy_correlation |->
          Text("Not enough data for mood-energy correlation."),
        activity_mood_correlation |->
          Text("Not enough data for activity-mood correlation.")]

NoStats == [seen |-> {}]

\* VibeService.GetVibeStatistics without a cache, its queries on one table
StatsOn(tbl, period, now, order) ==
  LET rows == InRange(tbl, PeriodRange(period, now)) IN
  Analytics(SortAsc(rows), order) @@
  [mood_distribution |-> MoodDistribution(rows),
   average_energy_level |-> AverageEnergy(rows),
   seen |-> IDs(rows)]

(***************************************************************************)
(* GetVibeStatistics: GetVibeStatsFiber / GetVibeStatsGin over             *)
(* VibeService.GetVibeStatistics; one step per query                       *)
(***************************************************************************)
ValidPeriods == {"week", "month", "year"}

StatsStatus(via, err) ==
  IF via = "svc" THEN 0
  ELSE IF err = "bad_request" THEN 400
  ELSE IF err = "nil" THEN 200 ELSE 500

StatsOut(via, period, err, val, after) ==
  [op |-> "stats", via |-> via, period |-> period, err |-> err,
   status |-> StatsStatus(via, err), val |-> val, after |-> after]

\* The handlers check the period; the service asks the cache first.
CallStats(s, via, period) ==
  LET key == getVibeStatsCacheKey(period) IN
  /\ IF via # "svc" /\ LowerToken(period) \notin ValidPeriods
     THEN Reply(s, StatsOut(via, period, "bad_request", NoStats, gone))
     ELSE \/ /\ cacheOn
             /\ key \in DOMAIN cache.stats
             /\ Reply(s, StatsOut(via, period, "nil", cache.stats[key], gone))
          \/ Begin(s, [op |-> "stats", pc |-> "dist", via |-> via,
                       period |-> period, after |-> gone, val |-> NoStats])
  /\ UNCHANGED <<store, nextID, cacheOn, cache, gone, zone, mw>>

\* SELECT mood, count(*) ... GROUP BY mood
StepStatsDist(s) ==
  LET r == req[s]
      rows == InRange(store, PeriodRange(r.period, Now))
  IN
  /\ r.op = "stats"
  /\ r.pc = "dist"
  /\ Goto(s, [r EXCEPT !.pc = "avg",
                       !.val = [mood_distribution |-> MoodDistribution(rows),
                                seen |-> IDs(rows)]])
  /\ UNCHANGED <<store, nextID, cacheOn, cache, gone, zone, mw>>

\* SELECT COALESCE(AVG(energy_level), 0)
StepStatsAvg(s) ==
  LET r == req[s]
      rows == InRange(store, PeriodRange(r.period, Now))
  IN
  /\ r.op = "stats"
  /\ r.pc = "avg"
  /\ Goto(s, [r EXCEPT !.pc = "range",
                       !.val = [mood_distribution |-> r.val.mood_distribution,
                                average_energy_level |-> AverageEnergy(rows),
                                seen |-> r.val.seen \cup IDs(rows)]])
  /\ UNCHANGED <<store, nextID, cacheOn, cache, gone, zone, mw>>

\* GetVibesForDateRange and the analytics over its rows
StepStatsRange(s) ==
  LET r == req[s]
      rows == InRange(store, PeriodRange(r.period, Now))
      vibesForPeriod == SortAsc(rows)
      stats(order) == Analytics(vibesForPeriod, order) @@
                      [mood_distribution |-> r.val.mood_distribution,
                       average_energy_level |-> r.val.average_energy_level,
                       seen |-> r.val.seen \cup IDs(rows)]
  IN
  /\ r.op = "stats"
  /\ r.pc = "range"
  /\ \E order \in MapOrders(vibesForPeriod) :
       IF cacheOn THEN Goto(s, [r EXCEPT !.pc = "set", !.val = stats(order)])
       ELSE Answer(s, StatsOut(r.via, r.period, "nil", stats(order), r.after))
  /\ UNCHANGED <<store, nextID, cacheOn, cache, gone, zone, mw>>

\* VibeRepository.GetVibeStatistics fails, at either of its two queries:
\* the service returns the error.
StepStatsFails(s) ==
  LET r == req[s] IN
  /\ r.op = "stats"
  /\ r.pc \in {"dist", "avg"}
  /\ Answer(s, StatsOut(r.via, r.period, "db", NoStats, r.after))
  /\ UNCHANGED <<store, nextID, cacheOn, cache, gone, zone, mw>>

\* GetVibesForDateRange fails: a warning is printed and the call goes on
\* with the statistics of the repository alone.
StepStatsRangeFails(s) ==
  LET r == req[s] IN
  /\ r.op = "stats"
  /\ r.pc = "range"
  /\ IF cacheOn THEN Goto(s, [r EXCEPT !.pc = "set"])
     ELSE Answer(s, StatsOut(r.via, r.period, "nil", r.val, r.after))
  /\ UNCHANGED <<store, nextID, cacheOn, cache, gone, zone, mw>>

\* s.Cache.Set(cacheKey, stats): a failure is only logged
StepStatsSet(s) ==
  LET r == req[s]
      key == getVibeStatsCacheKey(r.period)
  IN
  /\ r.op = "stats"
  /\ r.pc = "set"
  /\ \/ cache' = [cache EXCEPT !.stats = (key :> r.val) @@ @]
     \/ cache' = cache
  /\ Answer(s, StatsOut(r.via, r.period, "nil", r.val, r.after))
  /\ UNCHANGED <<store, nextID, cacheOn, gone, zone, mw>>

(***************************************************************************)
(* GetMoodStreak: GetMoodStreakFiber / GetMoodStreakGin over               *)
(* VibeService.GetMoodStreak; one step per query of the repository         *)
(***************************************************************************)
SeqIDs(vibes) == {vibes[i].id : i \in 1..Len(vibes)}

StreakOut(r, err, status) ==
  [op |-> "streak", err |-> err, status |-> status, arg |-> r.arg,
   mood |-> r.mood, current_streak |-> r.current_streak, longest_streak |-> r.longest_streak,
   seen |-> r.seen, after |-> r.after]

CallStreak(s, mood) ==
  LET r == [op |-> "streak", pc |-> "current", arg |-> mood,
            mood |-> NormalizeMood(mood), after |-> gone, current_streak |-> 0, longest_streak |-> 0,
            seen |-> {}]
  IN
  /\ IF mood = <<>> THEN Reply(s, StreakOut(r, "bad_request", 400))
     ELSE IF TrimSpace(mood) = <<>> THEN Reply(s, StreakOut(r, "invalid_mood", 500))
     ELSE Begin(s, r)
  /\ UNCHANGED <<store, nextID, cacheOn, cache, gone, zone, mw>>

\* GetMoodStreak(normalizedMood, true)
StepStreakCurrent(s) ==
  LET r == req[s]
      vibes == MoodRowsDesc(store, r.mood)
  IN
  /\ r.op = "streak"
  /\ r.pc = "current"
  /\ Goto(s, [r EXCEPT !.pc = "longest",
                       !.current_streak =
                          IF Len(vibes) = 0 THEN 0 ELSE CurrentStreak(vibes),
                       !.seen = SeqIDs(vibes)])
  /\ UNCHANGED <<store, nextID, cacheOn, cache, gone, zone, mw>>

\* GetMoodStreak(normalizedMood, false): the first query, newest first
StepStreakLongest(s) ==
  LET r == req[s]
      vibes == MoodRowsDesc(store, r.mood)
      seen == [r EXCEPT !.seen = @ \cup SeqIDs(vibes)]
  IN
  /\ r.op = "streak"
  /\ r.pc = "longest"
  /\ IF Len(vibes) = 0 THEN Answer(s, StreakOut(seen, "nil", 200))
     ELSE Goto(s, [seen EXCEPT !.pc = "requery"])
  /\ UNCHANGED <<store, nextID, cacheOn, cache, gone, zone, mw>>

\* GetMoodStreak(normalizedMood, false): the second query, oldest first
StepStreakRequery(s) ==
  LET r == req[s]
      vibes == MoodRowsAsc(store, r.mood)
  IN
  /\ r.op = "streak"
  /\ r.pc = "requery"
  /\ Answer(s, StreakOut([r EXCEPT !.longest_streak = LongestStreak(vibes, zone),
                                   !.seen = @ \cup SeqIDs(vibes)], "nil", 200))
  /\ UNCHANGED <<store, nextID, cacheOn, cache, gone, zone, mw>>

(***************************************************************************)
(* GetAllVibes and ExportVibes, with the default paging and sorting        *)
(***************************************************************************)
DefaultLimit == 10

NoFilter == [has |-> FALSE, mood |-> <<>>]

MoodFilter(m) == [has |-> TRUE, mood |-> m]

FilterInputs == {NoFilter, MoodFilter(<<"H">>), MoodFilter(<<"h">>)}

\* WHERE mood = ?
Matching(tbl, filter) ==
  {r \in Live(tbl) : filter.has => r.mood = filter.mood}

Take(vibes, n) == SubSeq(vibes, 1, IF Len(vibes) < n THEN Len(vibes) ELSE n)

IDSeq(vibes) == [i \in 1..Len(vibes) |-> vibes[i].id]

\* VibeService.GetAllVibes normalises the mood filter.
ListFilter(filter) ==
  IF filter.has THEN MoodFilter(NormalizeMood(filter.mood)) ELSE filter

\* query.Count(&total)
CallList(s, filter) ==
  /\ Begin(s, [op |-> "list", pc |-> "find", filter |-> ListFilter(filter),
               after |-> gone,
               total |-> Cardinality(Matching(store, ListFilter(filter)))])
  /\ UNCHANGED <<store, nextID, cacheOn, cache, gone, zone, mw>>

\* query.Order(...).Limit(limit).Offset(offset).Find(&vibes)
StepListFind(s) ==
  LET r == req[s] IN
  /\ r.op = "list"
  /\ r.pc = "find"
  /\ Answer(s, [op |-> "list", err |-> "nil", status |-> 200,
                filter |-> r.filter, total |-> r.total, after |-> r.after,
                ids |-> IDSeq(Take(SortDesc(Matching(store, r.filter)),
                                   DefaultLimit))])
  /\ UNCHANGED <<store, nextID, cacheOn, cache, gone, zone, mw>>

DefaultOffset == 0

MaxLimit == 100

\* strings.ToLower on a sort order token
LowerOrder(sortOrder) ==
  CASE sortOrder = "ASC" -> "asc"
    [] OTHER -> sortOrder

Drop(vibes, n) == SubSeq(vibes, n + 1, Len(vibes))

\* VibeRepository.GetAllVibes: the count, then the page of the ordered rows
RepoGetAllVibes(tbl, filter, limit, offset, sortOrder) ==
  LET found == IF sortOrder = "asc" THEN SortAsc(Matching(tbl, filter))
               ELSE SortDesc(Matching(tbl, filter))
      skipped == IF offset > 0 THEN Drop(found, offset) ELSE found
  IN [vibes |-> IF limit > 0 THEN Take(skipped, limit) ELSE skipped,
      total |-> Cardinality(Matching(tbl, filter))]

\* VibeService.GetAllVibes: the defaults for the limit, the offset and the
\* sort order, and the normalised mood filter
ServiceGetAllVibes(tbl, filter, limit, offset, sortOrder) ==
  RepoGetAllVibes(tbl, ListFilter(filter),
                  IF limit <= 0 \/ limit > MaxLimit THEN DefaultLimit ELSE limit,
                  IF offset < 0 THEN DefaultOffset ELSE offset,
                  IF sortOrder = "" THEN "desc"
                  ELSE IF LowerOrder(sortOrder) \notin {"asc", "desc"} THEN "desc"
                  ELSE LowerOrder(sortOrder))

\* Go's integer division, which rounds towards zero; b > 0
Quo(a, b) == IF a >= 0 THEN a \div b ELSE 0 - ((0 - a) \div b)

\* GetAllVibesFiber / GetAllVibesGin: the PaginatedVibesResponse
HandlerGetAllVibes(tbl, filter, limit, offset, sortOrder) ==
  LET res == ServiceGetAllVibes(tbl, filter, limit, offset, sortOrder) IN
  [op |-> "page", err |-> "nil", status |-> 200,
   arg |-> [filter |-> filter, limit |-> limit, offset |-> offset,
            sortOrder |-> sortOrder],
   data |-> IDSeq(res.vibes),
   total |-> res.total,
   limit |-> limit,
   offset |-> offset,
   page |-> IF limit > 0 THEN Quo(offset, limit) + 1 ELSE 0,
   total_pages |-> IF limit > 0 /\ res.total > 0
                   THEN (res.total + limit - 1) \div limit ELSE 0]

FormatInputs == {"csv", "JSON", "xml", ""}

\* strings.ToLower on a format token
LowerFormat(format) ==
  CASE format = "JSON" -> "json"
    [] OTHER -> format

ExportOut(via, filter, format, res, status) ==
  [op |-> "export", via |-> via, filter |-> filter, format |-> format,
   err |-> res.err, status |-> status, contentType |-> res.contentType,
   hasData |-> res.hasData, ids |-> res.ids, csv |-> res.csv]

\* return nil, "", err
NoExport(err) ==
  [err |-> err, hasData |-> FALSE, contentType |-> "", ids |-> <<>>, csv |-> <<>>]

\* strings.Join(elems, sep)
RECURSIVE Join(_, _)
Join(elems, sep) ==
  IF Len(elems) = 0 THEN <<>>
  ELSE IF Len(elems) = 1 THEN elems[1]
  ELSE elems[1] \o <<sep>> \o Join(Tail(elems), sep)

header == <<"ID", "Date", "Mood", "EnergyLevel", "Notes", "Activities">>

\* The row of a record: its key, date, mood, energy level, notes (the
\* records of this model carry none) and its activities joined with ";".
CsvRow(vibe) ==
  <<vibe.id, vibe.date, vibe.mood, vibe.energy, <<>>, Join(Activities(vibe), ";")>>

\* The records the csv.Writer is handed: the header, then a row per record.
CsvData(vibes) == <<header>> \o [i \in 1..Len(vibes) |-> CsvRow(vibes[i])]

\* query.Order(fmt.Sprintf("%s %s", sortBy, sortOrder)) on the date
Ordered(rows, sortOrder) ==
  IF sortOrder = "asc" THEN SortAsc(rows) ELSE SortDesc(rows)

\* The switch with a default case that exports JSON.
RepoExportVibesJsonDefault(tbl, filter, format, sortOrder) ==
  LET vibes == Ordered(Matching(tbl, filter), sortOrder) IN
  CASE LowerFormat(format) = "csv" ->
         [err |-> "nil", hasData |-> TRUE, contentType |-> "text/csv",
          ids |-> IDSeq(vibes), csv |-> CsvData(vibes)]
    [] OTHER ->
         [err |-> "nil", hasData |-> TRUE, contentType |-> "application/json",
          ids |-> IDSeq(vibes), csv |-> <<>>]

\* VibeRepository.ExportVibes: the query, then the switch on the format;
\* ids are the records written to the data, in their order.
RepoExportVibes(tbl, filter, format, sortOrder) ==
  LET vibes == Ordered(Matching(tbl, filter), sortOrder) IN
  CASE LowerFormat(format) = "csv" ->
         [err |-> "nil", hasData |-> TRUE, contentType |-> "text/csv",
          ids |-> IDSeq(vibes), csv |-> CsvData(vibes)]
    [] LowerFormat(format) = "json" ->
         [err |-> "nil", hasData |-> TRUE, contentType |-> "application/json",
          ids |-> IDSeq(vibes), csv |-> <<>>]
    [] OTHER -> NoExport("invalid_format")

\* VibeService.ExportVibes passes the filters on as they are; an empty or
\* unknown sort order becomes DefaultSortOrder.
ServiceExportVibes(tbl, filter, format, sortOrder) ==
  IF format = "" THEN NoExport("missing_format")
  ELSE RepoExportVibes(tbl, filter, format,
                       IF sortOrder \in {"asc", "desc"} THEN sortOrder ELSE "desc")

\* ExportVibesFiber / ExportVibesGin check the format before the service and
\* sort ascending unless asked otherwise.
HandlerExportVibes(tbl, filter, format) ==
  IF format = "" THEN ExportOut("fiber", filter, format, NoExport("missing_format"), 400)
  ELSE IF LowerFormat(format) \notin {"csv", "json"}
  THEN ExportOut("fiber", filter, format, NoExport("invalid_format"), 400)
  ELSE LET res == ServiceExportVibes(tbl, filter, LowerFormat(format), "asc") IN
       ExportOut("fiber", filter, format, res,
                 IF res.err = "nil" THEN 200 ELSE 500)

CallExport(s, filter, format) ==
  /\ Reply(s, ExportOut("svc", filter, format,
                        ServiceExportVibes(store, filter, format, ""), 0)
              @@ [after |-> gone])
  /\ UNCHANGED <<store, nextID, cacheOn, cache, gone, zone, mw>>

(***************************************************************************)
(* VibeService.GetTodaysVibeRecommendation                                 *)
(***************************************************************************)
Happy == <<"h", "a", "p", "p", "y">>

Sad == <<"s", "a", "d">>

highEnergyMoods ==
  {Happy, <<"g", "r", "e", "a", "t">>,
   <<"e", "n", "e", "r", "g", "e", "t", "i", "c">>,
   <<"e", "x", "c", "i", "t", "e", "d">>,
   <<"m", "o", "t", "i", "v", "a", "t", "e", "d">>}

\* now.AddDate(0, -3, 0): the same day of the month three months earlier;
\* a day past the end of that month runs on into the next.  For a now from
\* April 2024 on.
ThreeMonthsAgo(now) ==
  LET today == now \div Hour
      m == MonthOf(today)
  IN (MonthStart(m - 3) + (today - MonthStart(m))) * Hour + (now % Hour)

NonEmpty(activity) == activity # <<>>

\* The pool without the test of the energy level.
RECURSIVE PotentialActivitiesAnyEnergy(_, _)
PotentialActivitiesAnyEnergy(vibes, i) ==
  IF i > Len(vibes) THEN <<>>
  ELSE (IF vibes[i].mood \in highEnergyMoods
        THEN SelectSeq(Activities(vibes[i]), NonEmpty) ELSE <<>>)
       \o PotentialActivitiesAnyEnergy(vibes, i + 1)

\* The loop that collects potentialActivities, duplicates kept.
RECURSIVE PotentialActivities(_, _)
PotentialActivities(vibes, i) ==
  IF i > Len(vibes) THEN <<>>
  ELSE (IF vibes[i].energy >= 7 /\ vibes[i].mood \in highEnergyMoods
        THEN SelectSeq(Activities(vibes[i]), NonEmpty) ELSE <<>>)
       \o PotentialActivities(vibes, i + 1)

\* The rows GetVibesForDateRange(threeMonthsAgo, time.Now()) returns
RecentVibes(tbl, now) ==
  SortAsc(InRange(tbl, [startDate |-> ThreeMonthsAgo(now), endDate |-> now]))

NoSuggestion == [op |-> "recommend", err |-> "nil", kind |-> "none", activity |-> <<>>]

Suggestion(activity) ==
  [op |-> "recommend", err |-> "nil", kind |-> "activity", activity |-> activity]

(***************************************************************************)
(* The rate limiter of internal/middleware: one token bucket per client    *)
(* IP in the map clients, guarded by the mutex mu, and the goroutine that  *)
(* sweeps the map once a minute.  clock counts whole minutes; a limiter is *)
(* named by its place in limiters, the limiters made so far.               *)
(***************************************************************************)
IPs == {"10.0.0.1", "10.0.0.2"}

Visitors == {1, 2}

MaxClock == 4

MaxLimiters == 3

\* the burst of the token buckets, cfg.RateLimitBurst
Burst == 1

\* 3*time.Minute, in minutes
SweepAge == 3

StatusTooManyRequests == 429

NoVisit ==
  [pc |-> "idle", via |-> "", ip |-> "", limiter |-> 0, found |-> FALSE,
   allowed |-> FALSE, status |-> 0, next |-> FALSE, retryAfter |-> ""]

InitLimiter ==
  /\ clients = EmptyMap
  /\ limiters = <<>>
  /\ clock = 0
  /\ visit = [v \in Visitors |-> NoVisit]
  /\ woke = FALSE

\* rate.NewLimiter(r, b): a bucket that starts full
NewLimiter(b) == [tokens |-> b]

\* getVisitor under mu, with the map and the limiters as it leaves them and
\* the limiter it returns; every new entry is treated as if no entry existed
getVisitorAlwaysNew(cl, lims, ip, now) ==
  [clients |-> [i \in DOMAIN cl \cup {ip} |->
                  IF i = ip THEN [limiter |-> Len(lims) + 1, lastSeen |-> now]
                  ELSE cl[i]],
   limiters |-> Append(lims, NewLimiter(Burst)),
   limiter |-> Len(lims) + 1]

\* getVisitor under mu, with the map and the limiters as it leaves them and
\* the limiter it returns
getVisitor(cl, lims, ip, now) ==
  IF ip \notin DOMAIN cl
  THEN [clients |-> cl @@ (ip :> [limiter |-> Len(lims) + 1, lastSeen |-> now]),
        limiters |-> Append(lims, NewLimiter(Burst)),
        limiter |-> Len(lims) + 1]
  ELSE [clients |-> [cl EXCEPT ![ip].lastSeen = now],
        limiters |-> lims,
        limiter |-> cl[ip].limiter]

\* limiter.Allow(): takes a token when the bucket has one
Allow(lims, l) ==
  IF lims[l].tokens > 0
  THEN [ok |-> TRUE, limiters |-> [lims EXCEPT ![l].tokens = @ - 1]]
  ELSE [ok |-> FALSE, limiters |-> lims]

\* a request of ip enters the middleware: c.IP() and getVisitor
Arrive(v, via, ip) ==
  /\ visit[v].pc = "idle"
  /\ LET g == getVisitor(clients, limiters, ip, clock) IN
       /\ Len(g.limiters) <= MaxLimiters
       /\ clients' = g.clients
       /\ limiters' = g.limiters
       /\ visit' = [visit EXCEPT ![v] =
                      [NoVisit EXCEPT !.pc = "allow", !.via = via, !.ip = ip,
                                      !.limiter = g.limiter,
                                      !.found = ip \in DOMAIN clients]]
  /\ UNCHANGED <<clock, woke, svc>>

\* the answer of the middleware to a request the limiter refused
Rejected(r) ==
  [r EXCEPT !.pc = "done", !.allowed = FALSE, !.status = StatusTooManyRequests,
            !.retryAfter = "60", !.next = FALSE]

\* a request the limiter let through goes on to the next handler
Passed(r) == [r EXCEPT !.pc = "done", !.allowed = TRUE, !.next = TRUE]

RateLimiterFiber(v) ==
  /\ visit[v].pc = "allow"
  /\ visit[v].via = "fiber"
  /\ LET a == Allow(limiters, visit[v].limiter) IN
       /\ limiters' = a.limiters
       /\ visit' = [visit EXCEPT ![v] = IF ~a.ok THEN Rejected(@) ELSE Passed(@)]
  /\ UNCHANGED <<clients, clock, woke, svc>>

RateLimiterGin(v) ==
  /\ visit[v].pc = "allow"
  /\ visit[v].via = "gin"
  /\ LET a == Allow(limiters, visit[v].limiter) IN
       /\ limiters' = a.limiters
       /\ visit' = [visit EXCEPT ![v] = IF ~a.ok THEN Rejected(@) ELSE Passed(@)]
  /\ UNCHANGED <<clients, clock, woke, svc>>

\* the request is answered; its slot takes the next request
Leave(v) ==
  /\ visit[v].pc = "done"
  /\ visit' = [visit EXCEPT ![v] = NoVisit]
  /\ UNCHANGED <<clients, limiters, clock, woke, svc>>

\* a minute passes: the sweeper's time.Sleep returns, and at the configured
\* rate of several tokens a second every bucket is full again
Tick ==
  /\ clock < MaxClock
  /\ clock' = clock + 1
  /\ limiters' = [l \in DOMAIN limiters |-> [limiters[l] EXCEPT !.tokens = Burst]]
  /\ woke' = TRUE
  /\ UNCHANGED <<clients, visit, svc>>

\* one round of the goroutine started by init, under mu
Sweep ==
  /\ woke
  /\ clients' = [ip \in {i \in DOMAIN clients :
                           ~(clock - clients[i].lastSeen > SweepAge)} |->
                   clients[ip]]
  /\ woke' = FALSE
  /\ UNCHANGED <<limiters, clock, visit, svc>>

InitMiddleware ==
  /\ InitLimiter
  /\ store = EmptyMap
  /\ nextID = 1
  /\ cacheOn = FALSE
  /\ cache = EmptyCache
  /\ req = [s \in Slots |-> Idle]
  /\ calls = 0
  /\ gone = {}
  /\ zone = "UTC"
  /\ out = NoOut

NextLimiter ==
  \/ \E v \in Visitors, via \in {"fiber", "gin"}, ip \in IPs : Arrive(v, via, ip)
  \/ \E v \in Visitors : RateLimiterFiber(v)
  \/ \E v \in Visitors : RateLimiterGin(v)
  \/ \E v \in Visitors : Leave(v)
  \/ Tick
  \/ Sweep

SpecLimiter == InitMiddleware /\ [][NextLimiter]_vars

(***************************************************************************)
(* Properties of the rate limiter (SpecLimiter)                            *)
(***************************************************************************)
\* what holds of every state: an entry names a limiter that was made, no
\* two IPs share one, and an answered request that the limiter refused has
\* status 429 and did not go on to the next handler
LimiterState ==
  /\ \A ip \in DOMAIN clients : clients[ip].limiter \in 1..Len(limiters)
  /\ \A i, j \in DOMAIN clients : clients[i].limiter = clients[j].limiter => i = j
  /\ \A v \in Visitors :
       (visit[v].pc = "done" /\ ~visit[v].allowed) =>
         /\ visit[v].status = StatusTooManyRequests
         /\ ~visit[v].next

\* what holds of every step: a limiter is made only for an IP without an
\* entry; a request arriving while its IP has an entry gets that entry's
\* limiter and leaves it in the entry; the check takes its token from the
\* limiter the request was given and from no other; an entry that goes away
\* was last seen more than SweepAge minutes ago
LimiterStep ==
  /\ Len(limiters') > Len(limiters) =>
       /\ Len(limiters') = Len(limiters) + 1
       /\ \E ip \in DOMAIN clients' \ DOMAIN clients :
            clients'[ip].limiter = Len(limiters')
  /\ \A v \in Visitors :
       (visit[v].pc = "idle" /\ visit'[v].pc = "allow"
          /\ visit'[v].ip \in DOMAIN clients) =>
         /\ visit'[v].limiter = clients[visit'[v].ip].limiter
         /\ clients'[visit'[v].ip].limiter = clients[visit'[v].ip].limiter
  /\ \A v \in Visitors :
       (visit[v].pc = "allow" /\ visit'[v].pc = "done") =>
         /\ visit'[v].allowed = (limiters[visit[v].limiter].tokens > 0)
         /\ \A l \in 1..Len(limiters) :
              l # visit[v].limiter => limiters'[l] = limiters[l]
         /\ visit'[v].allowed =>
              limiters'[visit[v].limiter].tokens
                = limiters[visit[v].limiter].tokens - 1
  /\ \A ip \in DOMAIN clients \ DOMAIN clients' :
       clock - clients[ip].lastSeen > SweepAge

\* C29: under every interleaving of requests with the sweep, the map clients
\* holds one limiter per IP, a request of an IP that arrives while the IP has
\* an entry is checked against the limiter of that entry, the sweep deletes
\* an entry only when its lastSeen is more than 3 minutes old, and a request
\* the limiter refuses gets 429 and does not reach the next handler.
C29_OneLimiterPerIP == [](LimiterState) /\ [][LimiterStep]_vars

\* C29 witness: a request that found the entry of its IP is refused with 429
\* while an entry of another IP has been swept away.
C29_Witness ==
  /\ \E v \in Visitors :
       /\ visit[v].pc = "done"
       /\ visit[v].found
       /\ ~visit[v].allowed
       /\ visit[v].status = StatusTooManyRequests
       /\ visit[v].ip \in DOMAIN clients
  /\ Len(limiters) > Cardinality(DOMAIN clients)

(***************************************************************************)
(* SpecStreak: the streak calculator applied to every small table          *)
(***************************************************************************)
StreakHours == {8, 23}

StreakInstants == {d * Hour + h : d \in 0..MaxDay, h \in StreakHours}

StreakMoods == {<<"h">>, <<"s">>}

MinInt(S) == CHOOSE x \in S : \A y \in S : x <= y

RECURSIVE SortInts(_)
SortInts(S) ==
  IF S = {} THEN <<>>
  ELSE LET x == MinInt(S) IN <<x>> \o SortInts(S \ {x})

StreakTable(T, f) ==
  LET asc == SortInts(T) IN
  [i \in 1..Len(asc) |->
     [id |-> i, date |-> asc[i], mood |-> f[asc[i]], energy |-> 5,
      createdAt |-> Now, deleted |-> FALSE]]

StreakTables ==
  UNION { {StreakTable(T, f) : f \in [T -> StreakMoods]} :
          T \in {S \in SUBSET StreakInstants : Cardinality(S) <= MaxStreakLen} }

InitStreak ==
  /\ InitLimiter
  /\ store \in StreakTables
  /\ zone \in Zones
  /\ nextID = Cardinality(DOMAIN store) + 1
  /\ cacheOn = FALSE
  /\ cache = EmptyCache
  /\ req = [s \in Slots |-> Idle]
  /\ calls = 0
  /\ gone = {}
  /\ out = NoOut

StreakQuery(mood) ==
  /\ out' = [op |-> "streak", arg |-> mood] @@ ServiceGetMoodStreak(store, mood, zone)
  /\ UNCHANGED <<store, nextID, cacheOn, cache, req, calls, gone, zone, mw>>

NextStreak == \E mood \in RawMoods : StreakQuery(mood)

SpecStreak == InitStreak /\ [][NextStreak]_vars

StreakDone == out.op = "streak" /\ out.err = "nil"

\* The records of the queried mood, oldest first, and their calendar days.
StreakRows == MoodRowsAsc(store, out.mood)

DayAt(i) == CalendarDay(StreakRows[i].date, zone)

\* Records i..j are a run: each falls on the calendar day after the previous.
IsRun(i, j) == \A k \in i..(j - 1) : DayAt(k + 1) = DayAt(k) + 1

MaxOf(S) == CHOOSE x \in S : \A y \in S : y <= x

RunEndingAtLast ==
  LET n == Len(StreakRows) IN
  IF n = 0 THEN 0 ELSE MaxOf({n - i + 1 : i \in {j \in 1..n : IsRun(j, n)}})

LongestRun ==
  LET n == Len(StreakRows) IN
  IF n = 0 THEN 0
  ELSE MaxOf({q[2] - q[1] + 1 : q \in {p \in (1..n) \X (1..n) :
                                         p[1] <= p[2] /\ IsRun(p[1], p[2])}})

\* C4: in one GetMoodStreak result the current streak never exceeds the
\* longest streak.
C4_CurrentLeLongest ==
  StreakDone => out.current_streak <= out.longest_streak

\* C5: when the two most recent records of the mood fall on consecutive
\* calendar days, both modes count them as consecutive, whatever their times
\* of day.
C5_CalendarDaysOnly ==
  (StreakDone /\ Len(StreakRows) >= 2
     /\ DayAt(Len(StreakRows)) = DayAt(Len(StreakRows) - 1) + 1)
  => (out.current_streak >= 2 /\ out.longest_streak >= 2)

\* C6: the current streak is the length of the maximal run of consecutive
\* calendar days that ends at the most recent record of the mood.
C6_CurrentIsRunAtLast ==
  StreakDone => out.current_streak = RunEndingAtLast

\* C7: the longest streak is the maximum length over all maximal runs of
\* records of the mood on consecutive calendar days, the run ending at the
\* last record included; 0 without records of the mood, else at least 1.
C7_LongestIsMaxRun ==
  StreakDone =>
    /\ out.longest_streak = LongestRun
    /\ (Len(StreakRows) = 0 <=> out.longest_streak = 0)

\* C7 witness: the longest run is the one that ends at the last record, after
\* an earlier, shorter run was closed by a gap.
C7_Witness ==
  /\ StreakDone
  /\ Len(StreakRows) = 3
  /\ ~IsRun(1, 2)
  /\ IsRun(2, 3)
  /\ out.longest_streak = 2

(***************************************************************************)
(* Spec: the writes, interleaved step by step                               *)
(***************************************************************************)
VibeInput(date, mood, energy) ==
  [id |-> 0, date |-> date, mood |-> mood, energy |-> energy, createdAt |-> 0]

CreateInputs ==
  {VibeInput(d, m, e) : d \in DateInputs, m \in RawMoods, e \in EnergyInputs}

\* What the service is handed: any body, with any key and creation time.
ServiceUpdateInputs ==
  {[VibeInput(d, m, e) EXCEPT !.id = k[1], !.createdAt = k[2]] :
     d \in DateInputs, m \in {<<" ">>, <<"H">>}, e \in {5, 11},
     k \in {<<0, 0>>, <<MaxID, 5>>}}

\* What the handlers hand on: Mood, EnergyLevel, Notes and Activities only.
HandlerUpdateInputs ==
  {VibeInput(ZeroDate, m, e) : m \in RawMoods, e \in EnergyInputs}

BulkVibes ==
  {VibeInput(DateLate, <<"H">>, 1), VibeInput(DateEarly, <<"s", " ">>, 1),
   VibeInput(DateLate, <<" ">>, 1), VibeInput(DateLate, <<"H">>, 11)}

BulkInputs ==
  {<<>>} \cup {<<v>> : v \in BulkVibes}
         \cup {<<v, w>> : v \in BulkVibes, w \in BulkVibes}

\* The tables the service starts on: none, one entry, one deleted entry.
FirstRow == Row(1, [VibeInput(DateEarly, <<"h">>, 5) EXCEPT !.createdAt = Now])

InitTables ==
  {[tbl |-> EmptyMap, gone |-> {}],
   [tbl |-> (1 :> FirstRow), gone |-> {}],
   [tbl |-> (1 :> [FirstRow EXCEPT !.deleted = TRUE]), gone |-> {1}]}

Init ==
  /\ InitLimiter
  /\ \E t \in InitTables :
       /\ store = t.tbl
       /\ gone = t.gone
       /\ nextID = Cardinality(DOMAIN t.tbl) + 1
  /\ cacheOn \in BOOLEAN
  /\ cache = EmptyCache
  /\ req = [s \in Slots |-> Idle]
  /\ calls = 0
  /\ zone = "UTC"
  /\ out = NoOut

Next ==
  \/ \E s \in Slots : CanCall(s) /\ \E via \in {"svc", "fiber"}, vibe \in CreateInputs :
       CallCreate(s, via, vibe)
  \/ \E s \in Slots : CanCall(s) /\ \E id \in 1..MaxID, vibe \in ServiceUpdateInputs :
       CallUpdate(s, "svc", id, vibe)
  \/ \E s \in Slots : CanCall(s) /\ \E via \in {"fiber", "gin"}, id \in 1..MaxID,
        vibe \in HandlerUpdateInputs : CallUpdate(s, via, id, vibe)
  \/ \E s \in Slots : StepUpdateSave(s)
  \/ \E s \in Slots : CanCall(s) /\ \E id \in 1..MaxID : CallDelete(s, id)
  \/ \E s \in Slots : StepInvalidate(s)
  \/ \E s \in Slots : CanCall(s) /\ \E vibes \in BulkInputs : CallBulk(s, vibes)

Spec == Init /\ [][Next]_vars

(***************************************************************************)
(* Properties of the writes (Spec)                                         *)
(***************************************************************************)
\* C2: every record of the store, soft-deleted or not, has an energy level
\* in 1..10 and a mood that is non-empty, trimmed and all lowercase.
C2_StoreValid ==
  \A r \in Rows(store) :
    /\ 1 <= r.energy /\ r.energy <= 10
    /\ r.mood # <<>>
    /\ TrimSpace(r.mood) = r.mood
    /\ ToLower(r.mood) = r.mood

\* C2 witness: a create or bulk import of the mood "s " has stored "s", and
\* an update has replaced the first record.
C2_Witness ==
  /\ out.op = "update" /\ out.err = "nil" /\ out.id = 1
  /\ \E r \in Rows(store) : r.id # 1 /\ r.mood = <<"s">>

\* The save of the update in slot s commits in this step.
UpdateCommits(s) ==
  /\ req[s].op = "update" /\ req[s].pc = "save"
  /\ \/ req'[s].pc = "inval"
     \/ req'[s] = Idle /\ out'.op = "update" /\ out'.err = "nil"

\* C3: a successful UpdateVibe(id, v) leaves the id and createdAt of record
\* id as they were, whatever v carried, and changes no other record.
C3_UpdatePreserves ==
  [][\A s \in Slots : UpdateCommits(s) =>
       LET id == req[s].id IN
       /\ DOMAIN store' = DOMAIN store
       /\ id \in DOMAIN store
       /\ store'[id].id = id
       /\ store'[id].createdAt = store[id].createdAt
       /\ \A k \in DOMAIN store \ {id} : store'[k] = store[k]]_vars

\* C3 witness: the service has updated record 1 from a body that carried
\* another id and another creation time; the record has the new date.
C3_Witness ==
  /\ out.op = "update" /\ out.via = "svc" /\ out.err = "nil" /\ out.id = 1
  /\ 1 \in DOMAIN store
  /\ store[1].date = DateLate
  /\ store[1].createdAt = Now

\* C24: an update through a handler leaves the date of the record as it was
\* (and its key, creation time and liveness), and no update through a
\* handler fails in the database, on the unique index of the date.
C24_HandlerUpdateKeepsDate ==
  [][/\ \A s \in Slots : (UpdateCommits(s) /\ req[s].via # "svc") =>
          LET id == req[s].id IN
          /\ store'[id].date = store[id].date
          /\ store'[id].id = store[id].id
          /\ store'[id].createdAt = store[id].createdAt
          /\ store'[id].deleted = store[id].deleted
     /\ \A s \in Slots :
          (req[s].op = "update" /\ req[s].pc = "save" /\ req[s].via # "svc"
             /\ req'[s] = Idle)
          => out'.err # "db"]_vars

\* C26: BulkImportVibes fails, with count 0 and the store as it was, when
\* the list is empty, a vibe of it is invalid or a date of it is taken (by
\* a record of the store or by an earlier vibe of the list); otherwise it
\* returns the length of the list and has stored one record per vibe.
C26_BulkAllOrNothing ==
  [][(Replies /\ out'.op = "bulk") =>
       LET vibes == out'.arg
           n == Len(vibes)
           invalid == \E i \in 1..n : ValidateVibe(vibes[i]) # "nil"
           taken == \/ \E i \in 1..n : \E r \in Rows(store) : r.date = vibes[i].date
                    \/ \E i \in 1..n, j \in 1..n : i < j /\ vibes[i].date = vibes[j].date
       IN
       IF n = 0 \/ invalid \/ taken
       THEN /\ out'.err # "nil"
            /\ out'.count = 0
            /\ store' = store
       ELSE /\ out'.err = "nil"
            /\ out'.count = n
            /\ \A k \in DOMAIN store : k \in DOMAIN store' /\ store'[k] = store[k]
            /\ Cardinality(DOMAIN store' \ DOMAIN store) = n
            /\ \A i \in 1..n : \E k \in DOMAIN store' \ DOMAIN store :
                 /\ store'[k].date = vibes[i].date
                 /\ store'[k].mood = NormalizeMood(vibes[i].mood)
                 /\ store'[k].energy = vibes[i].energy]_vars

\* C26 witness: an import of two valid vibes has failed in the database on
\* the second, and the date of the first is not in the store.
C26_Witness ==
  /\ out.op = "bulk"
  /\ out.err = "db"
  /\ Len(out.arg) = 2
  /\ ValidateVibe(out.arg[1]) = "nil"
  /\ \A r \in Rows(store) : r.date # out.arg[1].date

\* C10: a create or update request of a handler whose body ValidateVibe
\* refuses is answered with 400, and the store is left as it was.
C10_InvalidIs400 ==
  [][(calls' = calls + 1 /\ out'.op \in {"create", "update"}
        /\ out'.via # "svc" /\ out'.invalid
        /\ \A t \in Slots : req'[t] = Disturbed(req[t]))
     => (out'.status = 400 /\ store' = store)]_vars

(***************************************************************************)
(* SpecReads: the reads, query by query, among the writes                  *)
(***************************************************************************)
ReadsCreateInputs ==
  {VibeInput(DateLate, <<"H">>, 5), VibeInput(DateEarly, <<"s", " ">>, 10)}

ReadsUpdateInputs ==
  {VibeInput(DateEarly, <<"s">>, 10), VibeInput(DateLate, <<"h">>, 1)}

ReadsBulkInputs ==
  {<<VibeInput(DateEarly, <<"H">>, 5)>>,
   <<VibeInput(DateEarly, <<"s">>, 10), VibeInput(DateLate, <<"H">>, 5)>>}

NextReads ==
  \/ \E s \in Slots : CanCall(s) /\ \E vibe \in ReadsCreateInputs :
       CallCreate(s, "svc", vibe)
  \/ \E s \in Slots : CanCall(s) /\ \E vibes \in ReadsBulkInputs : CallBulk(s, vibes)
  \/ \E s \in Slots : CanCall(s) /\ \E id \in 1..MaxID, vibe \in ReadsUpdateInputs :
       CallUpdate(s, "svc", id, vibe)
  \/ \E s \in Slots : StepUpdateSave(s)
  \/ \E s \in Slots : CanCall(s) /\ \E id \in 1..MaxID : CallDelete(s, id)
  \/ \E s \in Slots : StepInvalidate(s)
  \/ \E s \in Slots : CanCall(s) /\ \E id \in 1..MaxID : CallGet(s, id)
  \/ \E s \in Slots : StepGetRepo(s)
  \/ \E s \in Slots : StepGetSet(s)
  \/ \E s \in Slots : CanCall(s) /\ \E via \in {"svc", "fiber"}, period \in PeriodInputs :
       CallStats(s, via, period)
  \/ \E s \in Slots : StepStatsDist(s)
  \/ \E s \in Slots : StepStatsAvg(s)
  \/ \E s \in Slots : StepStatsRange(s)
  \/ \E s \in Slots : StepStatsSet(s)
  \/ \E s \in Slots : CanCall(s) /\ \E mood \in RawMoods : CallStreak(s, mood)
  \/ \E s \in Slots : StepStreakCurrent(s)
  \/ \E s \in Slots : StepStreakLongest(s)
  \/ \E s \in Slots : StepStreakRequery(s)
  \/ \E s \in Slots : CanCall(s) /\ \E filter \in FilterInputs : CallList(s, filter)
  \/ \E s \in Slots : StepListFind(s)
  \/ \E s \in Slots : CanCall(s) /\ \E filter \in FilterInputs, format \in FormatInputs :
       CallExport(s, filter, format)
  \/ Expire

SpecReads == Init /\ [][NextReads]_vars

(***************************************************************************)
(* Properties of the reads (SpecReads)                                     *)
(***************************************************************************)
\* C1: a read that starts after DeleteVibe(id) succeeded with no other call
\* running leaves record id out: GetVibeByID finds nothing, and GetAllVibes,
\* ExportVibes, GetMoodStreak and GetVibeStatistics work without it.
C1_DeletedExcluded ==
  /\ (out.op = "get" /\ out.id \in out.after) => out.err = "not_found"
  /\ out.op \in {"list", "export"} =>
       \A i \in 1..Len(out.ids) : out.ids[i] \notin out.after
  /\ out.op = "streak" => out.seen \cap out.after = {}
  /\ out.op = "stats" => out.val.seen \cap out.after = {}

\* The moods and the number of records behind a correlation.
MoodsBehind(corr) == IF corr.kind = "map" THEN DOMAIN corr.map ELSE {}

RECURSIVE CountBehind(_, _)
CountBehind(corr, moods) ==
  IF moods = {} THEN 0
  ELSE LET m == CHOOSE x \in moods : TRUE IN
       corr.map[m].n + CountBehind(corr, moods \ {m})

\* C8: in one computed GetVibeStatistics result the moods and the number of
\* records behind mood_distribution and average_energy_level are those
\* behind mood_energy_correlation, whatever runs concurrently.
C8_SingleSnapshot ==
  (out.op = "stats" /\ out.err = "nil") =>
    LET dist == out.val.mood_distribution
        corr == out.val.mood_energy_correlation
        n == CountBehind(corr, MoodsBehind(corr))
    IN
    /\ DOMAIN dist = MoodsBehind(corr)
    /\ \A m \in DOMAIN dist : dist[m] = corr.map[m].n
    /\ out.val.average_energy_level.n = n

\* C9: GetVibeByID, UpdateVibe with a valid body and DeleteVibe on an id
\* without a live record fail with record-not-found (404 from a handler)
\* and leave the store as it was.
C9_AbsentNotFound ==
  [][/\ \A s \in Slots :
          (req[s].op = "get" /\ req[s].pc = "repo" /\ req'[s] = Idle
             /\ FirstByID(store, req[s].id) = {})
          => (out'.err = "not_found" /\ out'.status = 404 /\ store' = store)
     /\ (Replies /\ out'.op \in {"get", "update", "delete"}
           /\ FirstByID(store, out'.id) = {}
           /\ (out'.op = "update" => ~out'.invalid))
        => /\ out'.err = "not_found"
           /\ out'.op = "update" \/ out'.status = 404
           /\ store' = store]_vars

\* No call is running.
AllIdle == \A s \in Slots : req[s] = Idle

\* C22: when a write through the service (CreateVibe, UpdateVibe, DeleteVibe
\* or BulkImportVibes) has succeeded with no other call running, the
\* GetVibeStatistics that comes next returns, for every period, the
\* statistics of the store as the write left it, never an older cached result.
C22_StatsFreshAfterWrite ==
  [][(/\ out.op \in {"create", "update", "delete", "bulk"}
      /\ out.err = "nil"
      /\ AllIdle
      /\ Replies
      /\ out'.op = "stats"
      /\ out'.err = "nil")
     => out'.val = StatsOn(store, out'.period, Now, <<>>)]_vars

\* C23: whenever no call is running, whatever the interleaving of the
\* GetVibeByID, UpdateVibe and DeleteVibe calls before, every cache entry
\* vibe:<id> equals the live record id of the store; a deleted record or the
\* values from before an update are not in the cache.
C23_CacheCoherent ==
  (cacheOn /\ AllIdle) =>
    \A id \in DOMAIN cache.vibe :
      /\ id \in DOMAIN store
      /\ ~store[id].deleted
      /\ cache.vibe[id] = store[id]

\* C25: a cache that is nil or whose operations fail changes no result and
\* no store: the invalidation that ends a write and the Set that ends a
\* GetVibeByID or a GetVibeStatistics answer without error, with the value
\* computed from the repository, whether the Delete or the Set succeeds or
\* not, and a GetVibeByID that missed the cache, or whose Get failed, gets
\* the live record from the repository.
C25_CacheFailuresTolerated ==
  [][\A s \in Slots :
       /\ (req[s].pc = "inval" /\ req'[s] = Idle) =>
            /\ out'.op = req[s].op
            /\ out'.err = "nil"
            /\ store' = store
       /\ (req[s].pc = "set" /\ req'[s] = Idle) =>
            /\ out'.op = req[s].op
            /\ out'.err = "nil"
            /\ out'.val = req[s].val
            /\ store' = store
       /\ (req[s].op = "get" /\ req[s].pc = "repo" /\ req'[s] # req[s]
             /\ FirstByID(store, req[s].id) # {}) =>
            /\ store' = store
            /\ IF req'[s] = Idle
               THEN ~cacheOn /\ out'.err = "nil" /\ out'.val = store[req[s].id]
               ELSE cacheOn /\ req'[s].val = store[req[s].id]]_vars

\* C25 witness: with a cache, DeleteVibe has returned without error and every
\* call has returned, while the entry vibe:<id> is still in the cache.
C25_Witness ==
  /\ cacheOn
  /\ AllIdle
  /\ out.op = "delete"
  /\ out.err = "nil"
  /\ out.id \in DOMAIN cache.vibe

\* C12: GetMoodStreak with an empty or whitespace-only mood is refused as a
\* client error (400), and no record is read for it.
C12_BlankMoodIs400 ==
  (out.op = "streak" /\ TrimSpace(out.arg) = <<>>) =>
    /\ out.err # "nil"
    /\ out.status = 400
    /\ out.seen = {}

(***************************************************************************)
(* SpecFaults: GetVibeStatistics among creates, with queries of the        *)
(* repository that may fail                                                *)
(***************************************************************************)
NextFaults ==
  \/ \E s \in Slots : CanCall(s) /\ \E vibe \in ReadsCreateInputs :
       CallCreate(s, "svc", vibe)
  \/ \E s \in Slots : StepInvalidate(s)
  \/ \E s \in Slots : CanCall(s) /\ \E via \in {"svc", "fiber"}, period \in PeriodInputs :
       CallStats(s, via, period)
  \/ \E s \in Slots : StepStatsDist(s)
  \/ \E s \in Slots : StepStatsAvg(s)
  \/ \E s \in Slots : StepStatsRange(s)
  \/ \E s \in Slots : StepStatsSet(s)
  \/ \E s \in Slots : StepStatsFails(s)
  \/ \E s \in Slots : StepStatsRangeFails(s)
  \/ Expire

SpecFaults == Init /\ [][NextFaults]_vars

StatsFields ==
  {"mood_distribution", "average_energy_level", "mood_patterns",
   "mood_energy_correlation", "activity_mood_correlation"}

\* C27: every stats entry of the cache holds mood_distribution,
\* average_energy_level, mood_patterns, mood_energy_correlation and
\* activity_mood_correlation, also after a failed fetch of the period's
\* records, and a GetVibeStatistics that returns an error leaves the cache
\* as it was.
C27_CachedStatsComplete ==
  [][/\ \A k \in DOMAIN cache'.stats : StatsFields \subseteq DOMAIN cache'.stats[k]
     /\ \A s \in Slots :
          (req[s].op = "stats" /\ req'[s] = Idle /\ out'.err # "nil")
          => cache' = cache]_vars

(***************************************************************************)
(* SpecAnalytics: the statistics, the period ranges, the recommendation    *)
(* and the export, each applied to every small table; a behaviour puts one *)
(* call to the table it starts on                                          *)
(***************************************************************************)
\* The instant of a day of 2024 at a full hour, UTC.
At(month, day, hour) == (MonthStart(month) + day - 1) * Hour + hour

\* time.Now() at the analytics calls: Friday 2024-05-31 12:00
NowMay == At(5, 31, 12)

Entry(date, mood, energy, activities, deleted) ==
  [date |-> date, mood |-> mood, energy |-> energy, activities |-> activities,
   deleted |-> deleted]

\* Two candidate records for each of five dates.
AnalyticsRows ==
  {Entry(At(2, 29, 8), Happy, 10, <<<<"h">>>>, FALSE),
   Entry(At(2, 29, 8), Sad, 1, <<>>, FALSE),
   Entry(At(3, 3, 8), Happy, 7,
         <<<<"h">>, <<"s">>, <<"h", "s">>, <<"s", ";", "h">>, <<"h", "h">>, <<"s", "s">>>>,
         FALSE),
   Entry(At(3, 3, 8), Happy, 9, <<<<" ">>, <<>>>>, FALSE),
   Entry(At(5, 2, 8), Sad, 10, <<<<"h">>, <<"H">>, <<" ", "h", " ">>, <<>>>>, FALSE),
   Entry(At(5, 2, 8), Happy, 6, <<<<"s">>>>, FALSE),
   Entry(At(5, 30, 8), Happy, 8, <<<<"h", "s">>>>, TRUE),
   Entry(At(5, 30, 8), Sad, 5, <<<<"s">>, <<"S">>>>, FALSE),
   Entry(At(6, 1, 8), Happy, 10, <<<<"s", "s">>>>, FALSE),
   Entry(At(6, 1, 8), Sad, 3, <<<<"s", ";", "h">>, <<"s", ";", "h">>>>, FALSE)}

\* The table of a set of entries with distinct dates, keys in date order.
AnalyticsTable(S) ==
  LET asc == SortAsc(S) IN
  [i \in 1..Len(asc) |->
     [id |-> i, date |-> asc[i].date, mood |-> asc[i].mood,
      energy |-> asc[i].energy, activities |-> asc[i].activities,
      createdAt |-> Now, deleted |-> asc[i].deleted]]

AnalyticsTables ==
  {AnalyticsTable(S) : S \in {T \in SUBSET AnalyticsRows :
      /\ Cardinality(T) <= MaxRows
      /\ \A r \in T, q \in T : r.date = q.date => r = q}}

InitAnalytics ==
  /\ InitLimiter
  /\ store \in AnalyticsTables
  /\ zone = "UTC"
  /\ nextID = Cardinality(DOMAIN store) + 1
  /\ cacheOn = FALSE
  /\ cache = EmptyCache
  /\ req = [s \in Slots |-> Idle]
  /\ calls = 0
  /\ gone = {r.id : r \in {q \in Rows(store) : q.deleted}}
  /\ out = NoOut

AnalyticsPeriods == {"Week", "month", "year", "quarter"}

\* GetVibeStatsFiber / GetVibeStatsGin or the service alone, at NowMay
StatsQuery(via, period) ==
  LET range == PeriodRange(period, NowMay)
      o == [op |-> "stats", via |-> via, period |-> period, now |-> NowMay,
            range |-> range, err |-> "nil", status |-> StatsStatus(via, "nil"),
            val |-> NoStats]
  IN
  /\ out = NoOut
  /\ IF via # "svc" /\ LowerToken(period) \notin ValidPeriods
     THEN out' = [o EXCEPT !.err = "bad_request",
                           !.status = StatsStatus(via, "bad_request")]
     ELSE \E order \in MapOrders(SortAsc(InRange(store, range))) :
            out' = [o EXCEPT !.val = StatsOn(store, period, NowMay, order)]
  /\ UNCHANGED <<store, nextID, cacheOn, cache, req, calls, gone, zone, mw>>

RangeNows == {d * Hour + h : d \in (0..8) \cup {30, 31}, h \in {0, 12, 23}}

\* The range GetVibeStatistics resolves for a period at a now in a Location
RangeQuery(period, now, loc) ==
  /\ out = NoOut
  /\ out' = [op |-> "range", period |-> period, now |-> now, loc |-> loc,
             range |-> PeriodRangeIn(period, now, loc)]
  /\ UNCHANGED <<store, nextID, cacheOn, cache, req, calls, gone, zone, mw>>

\* GetTodaysVibeRecommendation at NowMay; rand.Intn picks any of the pool.
RecommendQuery ==
  LET pool == PotentialActivities(RecentVibes(store, NowMay), 1) IN
  /\ out = NoOut
  /\ IF Len(pool) = 0 THEN out' = NoSuggestion @@ [now |-> NowMay]
     ELSE \E i \in 1..Len(pool) : out' = Suggestion(pool[i]) @@ [now |-> NowMay]
  /\ UNCHANGED <<store, nextID, cacheOn, cache, req, calls, gone, zone, mw>>

\* ExportVibes through a handler or on the service
ExportQuery(via, filter, format) ==
  /\ out = NoOut
  /\ out' = IF via = "svc"
            THEN ExportOut("svc", filter, format,
                           ServiceExportVibes(store, filter, format, ""), 0)
            ELSE HandlerExportVibes(store, filter, format)
  /\ UNCHANGED <<store, nextID, cacheOn, cache, req, calls, gone, zone, mw>>

LimitInputs == {0 - 1, 0, 1, 2, 101}

OffsetInputs == {0 - 1, 0, 1}

SortOrderInputs == {"", "ASC", "up"}

\* GET /api/v1/vibes with a limit, an offset and a sort order
PageQuery(limit, offset, sortOrder) ==
  /\ out = NoOut
  /\ out' = HandlerGetAllVibes(store, NoFilter, limit, offset, sortOrder)
  /\ UNCHANGED <<store, nextID, cacheOn, cache, req, calls, gone, zone, mw>>

NextAnalytics ==
  \/ \E limit \in LimitInputs, offset \in OffsetInputs, sortOrder \in SortOrderInputs :
       PageQuery(limit, offset, sortOrder)
  \/ \E period \in AnalyticsPeriods : StatsQuery("svc", period)
  \/ \E period \in PeriodInputs : StatsQuery("fiber", period)
  \/ \E period \in AnalyticsPeriods, now \in RangeNows, loc \in Locations :
       RangeQuery(period, now, loc)
  \/ RecommendQuery
  \/ \E via \in {"svc", "fiber"},
        filter \in {NoFilter, MoodFilter(Happy), MoodFilter(<<"H", "a", "p", "p", "y", " ">>)},
        format \in FormatInputs :
       ExportQuery(via, filter, format)

SpecAnalytics == InitAnalytics /\ [][NextAnalytics]_vars

(***************************************************************************)
(* Properties of the analytics (SpecAnalytics)                             *)
(***************************************************************************)
\* C11: ExportVibes with a format token other than csv or json, in any
\* case, is refused with an error about the format, with no data and no
\* content type; a handler answers 400.
C11_BadFormatRejected ==
  (out.op = "export" /\ out.format \notin {"csv", "json", "JSON"}) =>
    /\ out.err \in {"invalid_format", "missing_format"}
    /\ ~out.hasData
    /\ out.ids = <<>>
    /\ out.contentType = ""
    /\ out.via = "fiber" => out.status = 400

\* C11 witness: the service has refused the format xml on a table with a
\* live record that the filter admits.
C11_Witness ==
  /\ out.op = "export" /\ out.via = "svc" /\ out.format = "xml"
  /\ out.err = "invalid_format"
  /\ Matching(store, out.filter) # {}

\* strings.Split(s, sep): the pieces of s between the separators.
RECURSIVE Split(_, _)
Split(s, sep) ==
  IF \A i \in 1..Len(s) : s[i] # sep THEN <<s>>
  ELSE LET i == CHOOSE k \in 1..Len(s) :
                  s[k] = sep /\ \A j \in 1..(k - 1) : s[j] # sep
       IN <<SubSeq(s, 1, i - 1)>> \o Split(SubSeq(s, i + 1, Len(s)), sep)

\* C21: a CSV export is the header row followed by one row per matching
\* record, and splitting a row's Activities field on ";" gives the
\* activities of its record, in their order, the empty list included.
C21_CsvRoundTrip ==
  (out.op = "export" /\ out.err = "nil" /\ LowerFormat(out.format) = "csv") =>
    /\ Len(out.csv) = 1 + Cardinality(Matching(store, out.filter))
    /\ out.csv[1] = header
    /\ \A i \in 2..Len(out.csv) :
         /\ out.csv[i][1] = out.ids[i - 1]
         /\ Split(out.csv[i][6], ";") = store[out.csv[i][1]].activities

\* C28: an export holds exactly the records GetAllVibes matches for the
\* same filter when paging is left aside, also for a mood filter that
\* differs from the stored mood by letter case or surrounding whitespace.
C28_ExportMatchesList ==
  (out.op = "export" /\ out.err = "nil") =>
    {out.ids[i] : i \in 1..Len(out.ids)} = IDs(Matching(store, ListFilter(out.filter)))

\* C30: the data of a page is the page of the query with a limit in 1..100
\* (10 for a requested limit <= 0 or > 100), an offset >= 0 (0 for a
\* negative one) and the order asc or desc (desc for anything else); the
\* limit, offset, page and total_pages of the response are those of that
\* query, and the data holds no more records than the reported limit.
C30_PageAsApplied ==
  out.op = "page" =>
    LET limit == IF out.arg.limit <= 0 \/ out.arg.limit > 100 THEN 10
                 ELSE out.arg.limit
        offset == IF out.arg.offset < 0 THEN 0 ELSE out.arg.offset
        rows == IF out.arg.sortOrder = "ASC" THEN SortAsc(Live(store))
                ELSE SortDesc(Live(store))
        paged == {i \in 1..Len(rows) : offset < i /\ i <= offset + limit}
    IN
    /\ limit \in 1..100
    /\ Len(out.data) = Cardinality(paged)
    /\ \A k \in 1..Len(out.data) : out.data[k] = rows[offset + k].id
    /\ out.total = Len(rows)
    /\ out.limit = limit
    /\ out.offset = offset
    /\ out.page = (offset \div limit) + 1
    /\ out.total_pages * limit >= out.total
    /\ out.total > 0 => (out.total_pages - 1) * limit < out.total
    /\ Len(out.data) <= out.limit

StatsDone == out.op = "stats" /\ out.err = "nil"

\* The live records of the store within the range of the answered request.
RangeRows ==
  {r \in Rows(store) :
     ~r.deleted /\ out.range.startDate <= r.date /\ r.date <= out.range.endDate}

RECURSIVE SumCounts(_, _)
SumCounts(f, D) ==
  IF D = {} THEN 0
  ELSE LET k == CHOOSE x \in D : TRUE IN f[k] + SumCounts(f, D \ {k})

\* C13: mood_distribution has one entry per mood of the live records in the
\* range, each count is the number of those records with that mood, and the
\* counts sum to the number of live records in the range.
C13_DistributionCounts ==
  StatsDone =>
    LET dist == out.val.mood_distribution IN
    /\ DOMAIN dist = {r.mood : r \in RangeRows}
    /\ \A m \in DOMAIN dist : dist[m] = Cardinality({r \in RangeRows : r.mood = m})
    /\ SumCounts(dist, DOMAIN dist) = Cardinality(RangeRows)

\* C13 witness: statistics over a range with two live records of two moods,
\* on a table that also holds a soft-deleted record in the range.
C13_Witness ==
  /\ StatsDone
  /\ Cardinality(RangeRows) = 2
  /\ Cardinality(DOMAIN out.val.mood_distribution) = 2
  /\ \E r \in Rows(store) :
       r.deleted /\ out.range.startDate <= r.date /\ r.date <= out.range.endDate

\* The live records of the range, oldest first.
RangeVibes == SortAsc(RangeRows)

Logged(vibe, a) ==
  Cardinality({j \in 1..Len(vibe.activities) :
                 /\ vibe.activities[j] # <<>>
                 /\ ToLower(TrimSpace(vibe.activities[j])) = a})

RECURSIVE LoggedIn(_, _)
LoggedIn(S, a) ==
  IF S = {} THEN 0
  ELSE LET r == CHOOSE x \in S : TRUE IN Logged(r, a) + LoggedIn(S \ {r}, a)

LoggedNames ==
  UNION {{ToLower(TrimSpace(r.activities[j])) :
            j \in {k \in 1..Len(r.activities) : r.activities[k] # <<>>}} :
         r \in RangeRows}

\* C15: activity_mood_correlation counts the spellings of one activity as
\* one, reports min(5, number of distinct activities) activities, omits none
\* that is logged more often than a reported one, and for each reported
\* activity the counts per mood sum to its total_occurrences.
C15_TopActivities ==
  StatsDone =>
    LET corr == out.val.activity_mood_correlation
        reported == IF corr.kind = "map" THEN DOMAIN corr.map ELSE {}
        distinct == Cardinality(LoggedNames)
    IN
    /\ reported \subseteq LoggedNames
    /\ Cardinality(reported) = IF distinct < 5 THEN distinct ELSE 5
    /\ \A a \in LoggedNames \ reported, b \in reported :
         LoggedIn(RangeRows, a) <= LoggedIn(RangeRows, b)
    /\ \A a \in reported :
         /\ corr.map[a].total_occurrences = LoggedIn(RangeRows, a)
         /\ SumCounts(corr.map[a].mood_distribution,
                      DOMAIN corr.map[a].mood_distribution)
              = corr.map[a].total_occurrences

\* C15 witness: six activities are logged, one of them in three spellings
\* and under two moods, and five are reported.
C15_Witness ==
  /\ StatsDone
  /\ Cardinality(LoggedNames) = 6
  /\ out.val.activity_mood_correlation.kind = "map"
  /\ Cardinality(DOMAIN out.val.activity_mood_correlation.map) = 5
  /\ <<"h">> \in DOMAIN out.val.activity_mood_correlation.map
  /\ out.val.activity_mood_correlation.map[<<"h">>].total_occurrences = 4
  /\ Cardinality(DOMAIN out.val.activity_mood_correlation.map[<<"h">>].mood_distribution) = 2

\* C16: when mood_energy_correlation is a map it has one entry per mood of
\* the range, each the mean energy level of the records of that mood (their
\* sum over their number), which lies within 1..10.
C16_MeanEnergyPerMood ==
  (StatsDone /\ out.val.mood_energy_correlation.kind = "map") =>
    LET corr == out.val.mood_energy_correlation.map IN
    /\ DOMAIN corr = {r.mood : r \in RangeRows}
    /\ \A m \in DOMAIN corr :
         LET of == {r \in RangeRows : r.mood = m} IN
         /\ corr[m].n = Cardinality(of)
         /\ corr[m].sum = SumEnergy(of)
         /\ corr[m].n >= 1
         /\ corr[m].n <= corr[m].sum
         /\ corr[m].sum <= 10 * corr[m].n

\* C16 witness: a range with records of two moods, one mood with two records
\* of different energy levels.
C16_Witness ==
  /\ StatsDone
  /\ out.val.mood_energy_correlation.kind = "map"
  /\ Cardinality(DOMAIN out.val.mood_energy_correlation.map) = 2
  /\ \E m \in DOMAIN out.val.mood_energy_correlation.map :
       /\ out.val.mood_energy_correlation.map[m].n = 2
       /\ out.val.mood_energy_correlation.map[m].sum = 17

\* C17: with no live record in the range, GetVibeStatistics returns, without
\* error, an average energy level of 0, an empty mood distribution, and
\* placeholder strings for the patterns and the two correlations.
C17_EmptyRange ==
  (out.op = "stats" /\ out.err # "bad_request" /\ RangeRows = {}) =>
    /\ out.err = "nil"
    /\ out.val.average_energy_level = [sum |-> 0, n |-> 0]
    /\ DOMAIN out.val.mood_distribution = {}
    /\ out.val.mood_patterns.kind = "text"
    /\ out.val.mood_energy_correlation.kind = "text"
    /\ out.val.activity_mood_correlation.kind = "text"

\* C17 witness: statistics of the week on a table whose only record of the
\* week is soft-deleted and which has live records outside the week.
C17_Witness ==
  /\ StatsDone
  /\ LowerToken(out.period) = "week"
  /\ RangeRows = {}
  /\ Live(store) # {}
  /\ \E r \in Rows(store) :
       r.deleted /\ out.range.startDate <= r.date /\ r.date <= out.range.endDate

\* C18: for every now, the week is the range from 00:00 on the Monday of the
\* Monday-to-Sunday week that holds now to 23:59:59 on its Sunday, in the
\* Location of now, so that startDate <= now <= endDate and the range spans
\* seven calendar days.
C18_WeekRange ==
  (out.op = "range" /\ LowerToken(out.period) = "week") =>
    LET today == CalendarDay(out.now, out.loc)
        monday == today - (today % 7)
    IN
    /\ LocalHours(out.range.startDate, out.loc) = monday * Hour
    /\ LocalHours(out.range.endDate, out.loc) = (monday + 6) * Hour + 23
    /\ out.range.startDate <= out.now
    /\ out.now <= out.range.endDate
    /\ CalendarDay(out.range.endDate, out.loc)
         - CalendarDay(out.range.startDate, out.loc) + 1 = 7

\* C19: a statistics request with a period that is none of week, month and
\* year is not refused: it returns, without error, the statistics over the
\* range of the period month, the first through the last day of the month
\* of now.
C19_UnknownPeriodIsMonth ==
  (out.op = "stats" /\ LowerToken(out.period) \notin {"week", "month", "year"}) =>
    /\ out.err = "nil"
    /\ out.range = PeriodRange("month", out.now)
    /\ out.range.startDate = At(MonthOf(out.now \div Hour), 1, 0)
    /\ out.range.endDate =
         At(MonthOf(out.now \div Hour), MonthLen[MonthOf(out.now \div Hour)], 23)
    /\ out.val.seen = {r.id : r \in RangeRows}

\* C20: GetTodaysVibeRecommendation returns no error; it suggests only an
\* activity other than "" of a live record of the look-back window whose
\* mood is one of the five positive moods and whose energy level is at
\* least 7, and gives no suggestion exactly when there is no such activity.
C20_SuggestionFromGoodDays ==
  out.op = "recommend" =>
    LET good == {r \in Rows(store) :
                   /\ ~r.deleted
                   /\ ThreeMonthsAgo(out.now) <= r.date /\ r.date <= out.now
                   /\ r.mood \in highEnergyMoods
                   /\ r.energy >= 7}
        pool == UNION {{r.activities[j] : j \in 1..Len(r.activities)} : r \in good}
                  \ {<<>>}
    IN
    /\ out.err = "nil"
    /\ out.kind = "activity" => out.activity \in pool
    /\ out.kind = "none" <=> pool = {}

\* C20 witness: an activity is suggested on a table that also holds a record
\* of a positive mood with energy below 7 inside the window and a record of
\* a positive mood with high energy before the window.
C20_Witness ==
  /\ out.op = "recommend"
  /\ out.kind = "activity"
  /\ \E r \in Live(store) :
       /\ r.mood \in highEnergyMoods /\ r.energy < 7 /\ r.activities # <<>>
       /\ ThreeMonthsAgo(out.now) <= r.date /\ r.date <= out.now
  /\ \E r \in Live(store) :
       /\ r.mood \in highEnergyMoods /\ r.energy >= 7 /\ r.activities # <<>>
       /\ r.date < ThreeMonthsAgo(out.now)

====
